---- MODULE Spec2Model ----
(***************************************************************************)
(* mcprs: envelope routing (agent.rs, server.rs), the conversation store   *)
(* (conversation.rs) and the streaming decoder (streaming.rs).             *)
(*                                                                         *)
(* Strings whose characters matter (commands, agent names, stream bytes)   *)
(* are sequences of one-character strings.                                 *)
(***************************************************************************)
EXTENDS Integers, Sequences, FiniteSets, TLC

VARIABLES
    agents,       \* AgentRegistry.agents: name -> capability instance
    regReaders,   \* tasks holding a read guard of AppState.registry
    nextAgent,    \* capability instances constructed so far, plus one
    replaced,     \* history: the instances a later insert dropped
    lastReg,      \* history: name -> id of the instance registered last
    task,         \* per request task: position, envelope, result
    store,        \* ConversationManager.conversations: id -> Conversation
    storeWriter,  \* the thread holding the store's write guard, or "none"
    clock,        \* SystemTime::now()
    nextConv,     \* conversations constructed so far, plus one (fresh ids)
    thr,          \* per caller thread: operation, position, locals
    okAppends,    \* history: id -> appends that returned Ok
    removed,      \* history: ids a sweep removed
    appendLog,    \* history: id -> the appends that returned Ok, with their time
    updates,      \* history: update_conversation calls so far
    max_age,      \* ConversationManager.max_age
    input,        \* the bytes the chunk source carries in all
    source,       \* the bytes the chunk source has not yet yielded
    buffer,       \* process_json_stream: buffer
    dpc,          \* position of the decoder task
    pending,      \* the item the decoder task is about to send
    chan,         \* mpsc channel: items sent and not yet received
    delivered,    \* items the consumer has received
    rxAlive,      \* the consumer still holds the TokenStream
    failedSends,  \* history: sends that returned Err
    pulledAfterFail, \* history: a chunk was pulled after a send failed
    netErr,       \* history: the source yielded a transport error
    cfg,          \* per AuthConfig handle: the token set its Arc points to
    family,       \* history: the AuthConfig::new() handle a handle descends from
    sets,         \* the token sets: Arc<RwLock<HashSet<String>>> contents
    nextHandle,   \* AuthConfig handles made so far, plus one
    nextSet,      \* token sets allocated so far, plus one
    addedTo,      \* history: per family, the tokens add_token has added
    check,        \* the last is_valid_token call and its result
    srv,          \* the handle run_http_server_with_auth was given
    req,          \* the request the advanced server is serving
    call,         \* a process_request call of OpenAIAgent or DeepSeekAgent
    built         \* the envelope a client built last, and how it is routed

regVars == <<agents, regReaders, nextAgent, replaced, lastReg, task>>

storeVars ==
    <<store, storeWriter, clock, nextConv, thr, okAppends, removed, appendLog,
      updates, max_age>>

streamVars ==
    <<input, source, buffer, dpc, pending, chan, delivered, rxAlive,
      failedSends, pulledAfterFail, netErr>>

authVars ==
    <<cfg, family, sets, nextHandle, nextSet, addedTo, check, srv, req>>

backendVars == <<call, built>>

vars == <<regVars, storeVars, streamVars, authVars, backendVars>>

(***************************************************************************)
(* Bounds of the model.                                                    *)
(***************************************************************************)
MaxAgents == 3

Tasks == {"t1", "t2"}

AgentNames == {<<"a">>, <<"b">>}

Magics == {"MCP0", "XXXX"}

Commands ==
    { <<"a", ":", "x">>, <<"b", ":", "x">>, <<"a", "x">>,
      <<"a", ":", "x", ":", "y">>, <<>> }

Payloads == {"p1", "p2"}

(***************************************************************************)
(* agent.rs                                                                *)
(***************************************************************************)
EmptyMap == [k \in {} |-> k]

\* HashMap::insert: the entry for k is created or overwritten.
MapInsert(m, k, v) ==
    [x \in (DOMAIN m) \cup {k} |-> IF x = k THEN v ELSE m[x]]

\* MCPMessage::new
NewMessage(command, payload) ==
    [magic |-> "MCP0", version |-> 1, command |-> command, payload |-> payload]

\* Mutant of FirstColon: the last ':' of s.
LastColon(s) ==
    IF \E i \in 1..Len(s) : s[i] = ":"
    THEN CHOOSE i \in 1..Len(s) : s[i] = ":" /\ \A j \in (i + 1)..Len(s) : s[j] # ":"
    ELSE 0

\* Index of the first ':' of s, 0 when there is none.
FirstColon(s) ==
    IF \E i \in 1..Len(s) : s[i] = ":"
    THEN CHOOSE i \in 1..Len(s) : s[i] = ":" /\ \A j \in 1..(i - 1) : s[j] # ":"
    ELSE 0

\* Mutant of SplitN2: split(':'), a part for every separator.
RECURSIVE SplitAll(_)
SplitAll(s) ==
    LET i == FirstColon(s)
    IN  IF i = 0 THEN <<s>>
        ELSE <<SubSeq(s, 1, i - 1)>> \o SplitAll(SubSeq(s, i + 1, Len(s)))

\* str::splitn(2, ':') collected: one part without ':', else two.
SplitN2(s) ==
    LET i == FirstColon(s)
    IN  IF i = 0 THEN <<s>>
        ELSE <<SubSeq(s, 1, i - 1), SubSeq(s, i + 1, Len(s))>>

InvalidCommandFormat == [variant |-> "InvalidCommandFormat", arg |-> <<>>]

AgentNotRegistered(key) == [variant |-> "AgentNotRegistered", arg |-> key]

InternalAgentError(detail) == [variant |-> "InternalAgentError", arg |-> detail]

Ok(v) == [tag |-> "Ok", val |-> v]

Err(e) == [tag |-> "Err", val |-> e]

\* AgentRegistry::process up to the handler call: the routing decision.
\* "invoke" carries the capability the envelope is handed to.
Route(reg, message) ==
    LET parts == SplitN2(message.command)
    IN  IF Len(parts) # 2
        THEN [kind |-> "fail", err |-> InvalidCommandFormat, inst |-> 0]
        ELSE IF parts[1] \in DOMAIN reg
             THEN [kind |-> "invoke", err |-> InvalidCommandFormat,
                   inst |-> reg[parts[1]].id]
             ELSE [kind |-> "fail", err |-> AgentNotRegistered(parts[1]),
                   inst |-> 0]

\* AIAgent::process_request of a capability: Result<MCPMessage, MCPError>.
\* A success answers "<agent>_response" with a payload (DummyAgent echoes);
\* a failure is any MCPError the implementation chooses to build.
HandlerOutcomes(name, message) ==
    { Ok(NewMessage(name \o <<"_response">>, message.payload)),
      Err(InternalAgentError("backend")),
      Err(InvalidCommandFormat) }

\* Mutant of Propagate: every handler error is rebuilt as InternalAgentError.
WrapAsInternal(out) ==
    IF out.tag = "Err" /\ out.val.variant # "InternalAgentError"
    THEN Err(InternalAgentError(out.val.variant))
    ELSE out

\* `agent.process_request(message).await` is the tail expression of
\* AgentRegistry::process: the handler's result is the result of process.
Propagate(out) == out

\* Mutant of RegisterAgent: an occupied name keeps its first capability.
RegisterAgentKeepFirst(reg, agent) ==
    IF agent.name \in DOMAIN reg THEN reg ELSE MapInsert(reg, agent.name, agent)

\* AgentRegistry::register_agent
RegisterAgent(reg, agent) == MapInsert(reg, agent.name, agent)

(***************************************************************************)
(* server.rs                                                               *)
(***************************************************************************)
NoMessage == [magic |-> "", version |-> 0, command |-> <<>>, payload |-> ""]

NoResult == [tag |-> "None", val |-> 0]

\* No response has been produced yet.
NoHttp == [status |-> 0, body |-> NoResult]

\* impl Display for MCPError (the #[error(..)] attributes).
Display(e) ==
    CASE e.variant = "InvalidCommandFormat" ->
             <<"Formato de comando invalido (esperado 'agente:acao')">>
      [] e.variant = "AgentNotRegistered" ->
             <<"Agente '">> \o e.arg \o <<"' nao foi encontrado no registro">>
      [] e.variant = "InternalAgentError" ->
             <<"Erro interno do agente: ", e.arg>>

\* Mutant of IntoResponse: the error travels in a success-shaped envelope.
IntoSoftResponse(e) ==
    [status |-> 200, body |-> NewMessage(<<"error">>, Display(e))]

\* impl IntoResponse for MCPError: BAD_REQUEST with the body {error: text}.
IntoResponse(e) == [status |-> 400, body |-> [error |-> Display(e)]]

\* What axum writes for the Result<Json<MCPMessage>, MCPError> handle_mcp
\* returns.
McpResponse(result) ==
    IF result.tag = "Ok" THEN [status |-> 200, body |-> result.val]
    ELSE IntoResponse(result.val)

\* The response of a task that has its result: handle_mcp's is the
\* conversion of the result, handle_stream_mcp's was given at the start.
Answer(kind, result, http) ==
    IF kind = "mcp" THEN McpResponse(result) ELSE http

IdleTask ==
    [pc |-> "idle", kind |-> "mcp", msg |-> NoMessage, inst |-> 0,
     resp |-> NoResult, consulted |-> FALSE,
     regBefore |-> EmptyMap, regAfter |-> EmptyMap,
     out |-> NoResult, calls |-> 0, http |-> NoHttp, spawned |-> FALSE,
     events |-> <<>>, gone |-> FALSE, sendFailed |-> FALSE]

\* Mutant of MagicValid: the magic is not looked at.
MagicUnchecked(m) == TRUE

\* Mutant of MagicValid: the version has to be 1 as well.
MagicAndVersionValid(m) == m.magic = "MCP0" /\ m.version = 1

\* payload.magic != "MCP0"
MagicValid(m) == m.magic = "MCP0"

\* The envelope handle_mcp answers a bad magic with.
MagicErrorEnvelope == NewMessage(<<"error">>, "Magic invalido")

InitRegistry ==
    /\ agents = EmptyMap
    /\ regReaders = {}
    /\ nextAgent = 1
    /\ replaced = {}
    /\ lastReg = EmptyMap
    /\ task = [t \in Tasks |-> IdleTask]

\* Mutant of CanRegister: the write guard is granted beside read guards.
CanRegisterAlways(readers) == TRUE

\* tokio RwLock::write is granted once no read guard is out.
CanRegister(readers) == readers = {}

\* registry.write().await.register_agent(Box::new(..)): the writer needs the
\* lock free of readers; the insert runs without a suspension point.
Register(name) ==
    /\ nextAgent <= MaxAgents
    /\ CanRegister(regReaders)
    /\ LET agent == [id |-> nextAgent, name |-> name]
       IN  /\ agents' = RegisterAgent(agents, agent)
           /\ replaced' = replaced \cup
                  (IF name \in DOMAIN agents THEN {agents[name]} ELSE {})
           /\ lastReg' = MapInsert(lastReg, name, nextAgent)
    /\ nextAgent' = nextAgent + 1
    /\ UNCHANGED <<regReaders, task>>
    /\ UNCHANGED <<storeVars, streamVars, authVars, backendVars>>

\* handle_stream_mcp calls tokio::spawn with the envelope as it came; the
\* magic is looked at by the spawned task.  handle_mcp spawns nothing.
SpawnsBeforeMagic(kind, m) == kind = "stream"

\* Sse::new(ReceiverStream::new(rx)): the event stream handle_stream_mcp
\* returns as soon as the task is spawned.
SseResponse == [status |-> 200, body |-> [tag |-> "Sse", val |-> 0]]

\* A POST /mcp (handle_mcp) or /mcp/stream (handle_stream_mcp) request
\* arrives with a deserialized envelope; the streaming handler spawns its
\* task and returns the event stream.
Receive(t, kind, m) ==
    /\ task[t].pc = "idle"
    /\ task' = [task EXCEPT ![t] = [IdleTask EXCEPT !.pc = "magic",
                      !.kind = kind, !.msg = m,
                      !.spawned = SpawnsBeforeMagic(kind, m),
                      !.http = IF kind = "stream" THEN SseResponse
                               ELSE NoHttp]]
    /\ UNCHANGED <<agents, regReaders, nextAgent, replaced, lastReg>>
    /\ UNCHANGED <<storeVars, streamVars, authVars, backendVars>>

\* tokio::sync::mpsc::channel(100) of handle_stream_mcp.
SseChanCap == 100

\* Mutant of SseSendReturns: the send is a rendezvous with the client and
\* returns only once the client is gone.
SendWaitsForClient(tk) == tk.gone

\* tx.send(..).await of the streaming task returns: Err at once when the
\* receiver is gone, otherwise when the channel has room.
SseSendReturns(tk) == tk.gone \/ Len(tk.events) < SseChanCap

\* The event the streaming task makes of the result of reg.process(..).
SseEvent(result) ==
    [tag |-> "Event",
     val |-> IF result.tag = "Ok" THEN result.val
             ELSE <<"Error: ">> \o Display(result.val)]

\* The event the streaming task answers a bad magic with.
MagicErrorEvent == [tag |-> "Event", val |-> "Error: Invalid magic"]

\* The channel of a streaming task after tx.send(ev): the event is queued
\* unless the receiver is gone.
SseSent(tk, ev) == IF tk.gone THEN tk.events ELSE Append(tk.events, ev)

\* The magic check of both handlers; the streaming task sends its error
\* event and returns.
CheckMagic(t) ==
    /\ task[t].pc = "magic"
    /\ (task[t].kind = "stream" /\ ~MagicValid(task[t].msg)) =>
           SseSendReturns(task[t])
    /\ IF MagicValid(task[t].msg)
       THEN task' = [task EXCEPT ![t].pc = "lock"]
       ELSE task' = [task EXCEPT ![t].pc = "done",
                        ![t].resp = IF task[t].kind = "mcp"
                                    THEN Ok(MagicErrorEnvelope)
                                    ELSE MagicErrorEvent,
                        ![t].events = IF task[t].kind = "mcp" THEN @
                                      ELSE SseSent(task[t], MagicErrorEvent),
                        ![t].sendFailed = task[t].kind = "stream"
                                          /\ task[t].gone,
                        ![t].http = Answer(task[t].kind,
                                        Ok(MagicErrorEnvelope), task[t].http)]
    /\ UNCHANGED <<agents, regReaders, nextAgent, replaced, lastReg>>
    /\ UNCHANGED <<storeVars, streamVars, authVars, backendVars>>

\* tokio's RwLock queues its waiters first in, first out: a read guard is
\* not handed out past a writer that is waiting.
NoWriterWaiting == \A u \in Tasks : task[u].pc # "regwait"

\* state.registry.read().await
AcquireRead(t) ==
    /\ task[t].pc = "lock"
    /\ NoWriterWaiting
    /\ regReaders' = regReaders \cup {t}
    /\ task' = [task EXCEPT ![t].pc = "process", ![t].consulted = TRUE,
                            ![t].regBefore = agents]
    /\ UNCHANGED <<agents, nextAgent, replaced, lastReg>>
    /\ UNCHANGED <<storeVars, streamVars, authVars, backendVars>>

\* The guard a task holds when the registry call is over: handle_mcp drops
\* it at the end of the block, the streaming task keeps it while it sends.
ReleaseAfterCall(kind, readers, t) ==
    IF kind = "mcp" THEN readers \ {t} ELSE readers

\* Where a task goes with the result of reg.process(..).
AfterCall(kind) == IF kind = "mcp" THEN "done" ELSE "send"

\* The read guard while the handler is awaited: reg is still in scope.
HeldDuringHandler(readers, t) == readers

\* reg.process(payload): split, look up, and either fail or call the handler.
Process(t) ==
    /\ task[t].pc = "process"
    /\ LET r == Route(agents, task[t].msg)
       IN  IF r.kind = "invoke"
           THEN /\ task' = [task EXCEPT ![t].pc = "handler", ![t].inst = r.inst]
                /\ regReaders' = HeldDuringHandler(regReaders, t)
           ELSE /\ task' = [task EXCEPT ![t].pc = AfterCall(task[t].kind),
                                   ![t].resp = Err(r.err),
                                   ![t].regAfter = agents,
                                   ![t].http = Answer(task[t].kind,
                                                   Err(r.err), task[t].http)]
                /\ regReaders' = ReleaseAfterCall(task[t].kind, regReaders, t)
    /\ UNCHANGED <<agents, nextAgent, replaced, lastReg>>
    /\ UNCHANGED <<storeVars, streamVars, authVars, backendVars>>

\* agent.process_request(message).await completes (the backend answered).
HandlerReturn(t, out) ==
    /\ task[t].pc = "handler"
    /\ \E n \in DOMAIN agents :
          /\ agents[n].id = task[t].inst
          /\ out \in HandlerOutcomes(n, task[t].msg)
    /\ task' = [task EXCEPT ![t].pc = AfterCall(task[t].kind),
                            ![t].resp = Propagate(out),
                            ![t].regAfter = agents,
                            ![t].out = out,
                            ![t].calls = @ + 1,
                            ![t].http = Answer(task[t].kind, Propagate(out),
                                            task[t].http)]
    /\ regReaders' = ReleaseAfterCall(task[t].kind, regReaders, t)
    /\ UNCHANGED <<agents, nextAgent, replaced, lastReg>>
    /\ UNCHANGED <<storeVars, streamVars, authVars, backendVars>>

\* The streaming task sends its single event and ends, dropping the guard.
SendEvent(t) ==
    /\ task[t].pc = "send"
    /\ SseSendReturns(task[t])
    /\ task' = [task EXCEPT ![t].pc = "done",
                            ![t].events = SseSent(task[t],
                                              SseEvent(task[t].resp)),
                            ![t].sendFailed = task[t].gone]
    /\ regReaders' = regReaders \ {t}
    /\ UNCHANGED <<agents, nextAgent, replaced, lastReg>>
    /\ UNCHANGED <<storeVars, streamVars, authVars, backendVars>>

\* The response is written out and the task ends.
Finish(t) ==
    /\ task[t].pc = "done"
    /\ task' = [task EXCEPT ![t] = IdleTask]
    /\ UNCHANGED <<agents, regReaders, nextAgent, replaced, lastReg>>
    /\ UNCHANGED <<storeVars, streamVars, authVars, backendVars>>

\* The envelopes a client may post.
Envelopes ==
    {[magic |-> g, version |-> 1, command |-> c, payload |-> p] :
        g \in Magics, c \in Commands, p \in Payloads}

NextDispatch ==
    \/ \E n \in AgentNames : Register(n)
    \/ \E t \in Tasks, k \in {"mcp", "stream"}, m \in Envelopes :
          Receive(t, k, m)
    \/ \E t \in Tasks : CheckMagic(t)
    \/ \E t \in Tasks : AcquireRead(t)
    \/ \E t \in Tasks : Process(t)
    \/ \E t \in Tasks : \E out \in UNION {HandlerOutcomes(n, task[t].msg) :
                                             n \in AgentNames} :
          HandlerReturn(t, out)
    \/ \E t \in Tasks : SendEvent(t)
    \/ \E t \in Tasks : Finish(t)

\* The client of a streaming request goes away: the response body, and
\* with it the receiver of the channel, is dropped.
ClientDisconnect(t) ==
    /\ task[t].kind = "stream"
    /\ task[t].pc \notin {"idle", "done"}
    /\ ~task[t].gone
    /\ task' = [task EXCEPT ![t].gone = TRUE]
    /\ UNCHANGED <<agents, regReaders, nextAgent, replaced, lastReg>>
    /\ UNCHANGED <<storeVars, streamVars, authVars, backendVars>>

\* The envelopes posted to /mcp/stream in the runs with disconnecting
\* clients.
SseEnvelopes == {m \in Envelopes : m.payload = "p1"}

NextSse ==
    \/ \E n \in AgentNames : Register(n)
    \/ \E t \in Tasks, m \in SseEnvelopes : Receive(t, "stream", m)
    \/ \E t \in Tasks : CheckMagic(t)
    \/ \E t \in Tasks : AcquireRead(t)
    \/ \E t \in Tasks : Process(t)
    \/ \E t \in Tasks : \E out \in UNION {HandlerOutcomes(n, task[t].msg) :
                                             n \in AgentNames} :
          HandlerReturn(t, out)
    \/ \E t \in Tasks : SendEvent(t)
    \/ \E t \in Tasks : Finish(t)
    \/ \E t \in Tasks : ClientDisconnect(t)

\* The capability stored under name n if a dispatch is running its handler
\* now, 0 otherwise.
InFlightInstance(n) ==
    IF n \in DOMAIN agents
       /\ \E v \in Tasks : task[v].pc = "handler" /\ task[v].inst = agents[n].id
    THEN agents[n].id
    ELSE 0

\* A task calls registry.write().await to register a capability named n
\* and waits for the guard.  It remembers the capability of that name a
\* dispatch is running at this moment.
RegisterCall(t, n) ==
    /\ task[t].pc = "idle"
    /\ nextAgent <= MaxAgents
    /\ NoWriterWaiting
    /\ task' = [task EXCEPT ![t] = [IdleTask EXCEPT !.pc = "regwait",
                      !.kind = "register",
                      !.msg = [NoMessage EXCEPT !.command = n],
                      !.inst = InFlightInstance(n)]]
    /\ UNCHANGED <<agents, regReaders, nextAgent, replaced, lastReg>>
    /\ UNCHANGED <<storeVars, streamVars, authVars, backendVars>>

\* The write guard is granted and register_agent inserts; the guard is
\* dropped.
RegisterGranted(t) ==
    /\ task[t].pc = "regwait"
    /\ CanRegister(regReaders)
    /\ LET name == task[t].msg.command
           agent == [id |-> nextAgent, name |-> name]
       IN  /\ agents' = RegisterAgent(agents, agent)
           /\ replaced' = replaced \cup
                  (IF name \in DOMAIN agents THEN {agents[name]} ELSE {})
           /\ lastReg' = MapInsert(lastReg, name, nextAgent)
    /\ nextAgent' = nextAgent + 1
    /\ task' = [task EXCEPT ![t].pc = "done"]
    /\ UNCHANGED regReaders
    /\ UNCHANGED <<storeVars, streamVars, authVars, backendVars>>

NextReplace ==
    \/ \E t \in Tasks, n \in AgentNames : RegisterCall(t, n)
    \/ \E t \in Tasks : RegisterGranted(t)
    \/ \E t \in Tasks, m \in SseEnvelopes : Receive(t, "mcp", m)
    \/ \E t \in Tasks : CheckMagic(t)
    \/ \E t \in Tasks : AcquireRead(t)
    \/ \E t \in Tasks : Process(t)
    \/ \E t \in Tasks : \E out \in UNION {HandlerOutcomes(n, task[t].msg) :
                                             n \in AgentNames} :
          HandlerReturn(t, out)
    \/ \E t \in Tasks : Finish(t)

\* version: u8 of MCPMessage: values a client may send.
Versions == {1, 2, 255}

\* The envelopes posted in the runs with other versions.
VersionedEnvelopes ==
    {[magic |-> g, version |-> v, command |-> c, payload |-> "p1"] :
        g \in Magics, v \in Versions, c \in Commands}

NextVersion ==
    \/ \E n \in AgentNames : Register(n)
    \/ \E t \in Tasks, m \in VersionedEnvelopes : Receive(t, "mcp", m)
    \/ \E t \in Tasks : CheckMagic(t)
    \/ \E t \in Tasks : AcquireRead(t)
    \/ \E t \in Tasks : Process(t)
    \/ \E t \in Tasks : \E out \in UNION {HandlerOutcomes(n, task[t].msg) :
                                             n \in AgentNames} :
          HandlerReturn(t, out)
    \/ \E t \in Tasks : Finish(t)

\* Names of capabilities, one of them with the separator in it.
ColonNames == {<<"a">>, <<"a", ":", "x">>}

NextColon ==
    \/ \E n \in ColonNames : Register(n)
    \/ \E t \in Tasks, m \in SseEnvelopes : Receive(t, "mcp", m)
    \/ \E t \in Tasks : CheckMagic(t)
    \/ \E t \in Tasks : AcquireRead(t)
    \/ \E t \in Tasks : Process(t)
    \/ \E t \in Tasks : \E out \in UNION {HandlerOutcomes(n, task[t].msg) :
                                             n \in ColonNames} :
          HandlerReturn(t, out)
    \/ \E t \in Tasks : Finish(t)

(***************************************************************************)
(* conversation.rs                                                         *)
(***************************************************************************)
\* The ids Uuid::new_v4 hands out, in the order it does.
ConvIdPool == {1, 2}

MaxMsgs == 2

MaxTime == 1

\* ConversationManager::new(max_age_hours): max_age, in ticks of the clock
\* (0 as in test_cleanup_old_conversations).
MaxAge == 0

Threads == {"w1", "w2"}

Roles == {"user"}

NoConv ==
    [id |-> 0, messages |-> <<>>, metadata |-> EmptyMap, created_at |-> 0,
     updated_at |-> 0]

\* Mutant of NewConversation: the conversation starts with a message.
NewConversationSeeded(id, now) ==
    [id |-> id,
     messages |-> <<[role |-> "system", content |-> "", timestamp |-> now]>>,
     metadata |-> EmptyMap, created_at |-> now, updated_at |-> now]

\* Conversation::new: a fresh id, no messages, both times now.
NewConversation(id, now) ==
    [id |-> id, messages |-> <<>>, metadata |-> EmptyMap, created_at |-> now,
     updated_at |-> now]

\* Mutant of AddMessage: the message is put in front of the list.
AddMessageFront(c, role, content, now) ==
    [c EXCEPT !.messages = <<[role |-> role, content |-> content,
                              timestamp |-> now]>> \o c.messages,
              !.updated_at = now]

\* Conversation::add_message: push the message, bump updated_at.
AddMessage(c, role, content, now) ==
    [c EXCEPT !.messages = Append(c.messages,
                  [role |-> role, content |-> content, timestamp |-> now]),
              !.updated_at = now]

\* HashMap::remove of every key of ks.
MapRemoveAll(m, ks) == [x \in (DOMAIN m) \ ks |-> m[x]]

\* Mutant of Expired: the age is taken from created_at.
ExpiredByCreation(now, conv, maxAge) ==
    now >= conv.created_at /\ now - conv.created_at > maxAge

\* The filter of cleanup_old_conversations: now.duration_since(updated_at)
\* is an error when updated_at is later than now, and then the entry stays.
Expired(now, conv, maxAge) ==
    now >= conv.updated_at /\ now - conv.updated_at > maxAge

\* ids_to_remove of cleanup_old_conversations.
IdsToRemove(m, now, maxAge) == {id \in DOMAIN m : Expired(now, m[id], maxAge)}

\* Mutant of CanWrite: the write guard is handed out whoever holds it.
CanWriteAlways(w) == TRUE

\* RwLock::write succeeds once no other guard is held.
CanWrite(w) == w = "none"

\* Mutant of GuardDropped: the call returns with its write guard alive.
GuardKept(w) == w

\* The write guard goes out of scope at the end of the `if let Ok(..)`
\* block: nobody holds the lock.
GuardDropped(w) == "none"

\* RwLock::read succeeds once no write guard is held.
CanRead(w) == w = "none"

\* A thread between two store calls; op, id and res are those of its last.
IdleThread ==
    [pc |-> "idle", op |-> "none", id |-> 0, role |-> "user",
     entry |-> NoConv, now |-> 0, res |-> NoResult, raced |-> FALSE]

\* What a thread keeps of a call that returned.
Returned(t, res) ==
    [IdleThread EXCEPT !.op = t.op, !.id = t.id, !.res = res,
                       !.raced = t.raced, !.now = t.now]

\* The ids a caller can name: those create_conversation has handed out
\* (random 128-bit ids cannot be guessed), and 0, which never exists.
KnownIds == (DOMAIN store) \cup removed \cup {0}

InitStore ==
    /\ store = EmptyMap
    /\ storeWriter = "none"
    /\ clock = 0
    /\ nextConv = 1
    /\ thr = [w \in Threads |-> IdleThread]
    /\ okAppends = [i \in ConvIdPool |-> 0]
    /\ removed = {}
    /\ appendLog = [i \in ConvIdPool |-> <<>>]
    /\ updates = 0
    /\ max_age = MaxAge

\* Time passes.
Tick ==
    /\ clock < MaxTime
    /\ clock' = clock + 1
    /\ UNCHANGED <<store, storeWriter, nextConv, thr, okAppends, removed>>
    /\ UNCHANGED <<appendLog, updates, max_age>>
    /\ UNCHANGED <<regVars, streamVars, authVars, backendVars>>

\* create_conversation, first half: Conversation::new() mints the id and
\* samples the time.
CreateNew(w) ==
    /\ thr[w].pc = "idle"
    /\ nextConv \in ConvIdPool
    /\ thr' = [thr EXCEPT ![w] = [IdleThread EXCEPT !.pc = "c_ins",
                  !.op = "create", !.id = nextConv,
                  !.entry = NewConversation(nextConv, clock)]]
    /\ nextConv' = nextConv + 1
    /\ UNCHANGED <<store, storeWriter, clock, okAppends, removed>>
    /\ UNCHANGED <<appendLog, updates>>
    /\ UNCHANGED max_age
    /\ UNCHANGED <<regVars, streamVars, authVars, backendVars>>

\* create_conversation, second half: insert under the write guard and hand
\* the clone back.
CreateInsert(w) ==
    /\ thr[w].pc = "c_ins"
    /\ CanWrite(storeWriter)
    /\ store' = MapInsert(store, thr[w].id, thr[w].entry)
    /\ thr' = [thr EXCEPT ![w] = Returned(thr[w], Ok(thr[w].entry))]
    /\ UNCHANGED <<storeWriter, clock, nextConv, okAppends, removed>>
    /\ UNCHANGED <<appendLog, updates>>
    /\ UNCHANGED max_age
    /\ UNCHANGED <<regVars, streamVars, authVars, backendVars>>

\* get_conversation: a clone of the entry, or None.
GetConversation(w, id) ==
    /\ thr[w].pc = "idle"
    /\ CanRead(storeWriter)
    /\ thr' = [thr EXCEPT ![w] = [IdleThread EXCEPT !.op = "get", !.id = id,
                  !.res = IF id \in DOMAIN store THEN Ok(store[id])
                          ELSE NoResult]]
    /\ UNCHANGED <<store, storeWriter, clock, nextConv, okAppends, removed>>
    /\ UNCHANGED <<appendLog, updates>>
    /\ UNCHANGED max_age
    /\ UNCHANGED <<regVars, streamVars, authVars, backendVars>>

\* Mutant of AppendMiss: a missing id is created on the spot.
AppendMissCreates(m, id, now) == MapInsert(m, id, NewConversation(id, now))

\* The else arm of get_mut in add_message_to_conversation: the map is left
\* as it is.
AppendMiss(m, id, now) == m

\* The threads inside add_message_to_conversation(id, ..).
InFlightAppends(id) ==
    {v \in Threads : thr[v].pc \in {"a_lock", "a_find", "a_push"} /\ thr[v].id = id}

\* add_message_to_conversation is called.
AppendCall(w, id, role) ==
    /\ thr[w].pc = "idle"
    /\ id \in DOMAIN store =>
          Len(store[id].messages) + Cardinality(InFlightAppends(id)) < MaxMsgs
    /\ thr' = [thr EXCEPT ![w] = [IdleThread EXCEPT !.pc = "a_lock",
                  !.op = "append", !.id = id, !.role = role,
                  !.raced = (InFlightAppends(id) \ {w} # {})]]
    /\ UNCHANGED <<store, storeWriter, clock, nextConv, okAppends, removed>>
    /\ UNCHANGED <<appendLog, updates>>
    /\ UNCHANGED max_age
    /\ UNCHANGED <<regVars, streamVars, authVars, backendVars>>

\* self.conversations.write()
AppendLock(w) ==
    /\ thr[w].pc = "a_lock"
    /\ CanWrite(storeWriter)
    /\ storeWriter' = w
    /\ thr' = [thr EXCEPT ![w].pc = "a_find"]
    /\ UNCHANGED <<store, clock, nextConv, okAppends, removed>>
    /\ UNCHANGED <<appendLog, updates>>
    /\ UNCHANGED max_age
    /\ UNCHANGED <<regVars, streamVars, authVars, backendVars>>

\* conversations.get_mut(conversation_id): the entry to mutate, or the
\* not-found error and the guard dropped.
AppendFind(w) ==
    /\ thr[w].pc = "a_find"
    /\ IF thr[w].id \in DOMAIN store
       THEN /\ thr' = [thr EXCEPT ![w].pc = "a_push",
                                  ![w].entry = store[thr[w].id]]
            /\ UNCHANGED storeWriter
       ELSE /\ thr' = [thr EXCEPT ![w] =
                          Returned(thr[w], Err("Conversa nao encontrada"))]
            /\ storeWriter' = GuardDropped(w)
    /\ store' = IF thr[w].id \in DOMAIN store THEN store
                ELSE AppendMiss(store, thr[w].id, clock)
    /\ UNCHANGED <<clock, nextConv, okAppends, removed>>
    /\ UNCHANGED <<appendLog, updates>>
    /\ UNCHANGED max_age
    /\ UNCHANGED <<regVars, streamVars, authVars, backendVars>>

\* conversation.add_message(role, content), updated_at = now, Ok(()): the
\* entry reached through get_mut is written with the message pushed, and
\* the guard is dropped.
AppendPush(w) ==
    /\ thr[w].pc = "a_push"
    /\ store' = MapInsert(store, thr[w].id,
                    [AddMessage(thr[w].entry, thr[w].role, "hi", clock)
                        EXCEPT !.updated_at = clock])
    /\ okAppends' = [okAppends EXCEPT ![thr[w].id] = @ + 1]
    /\ appendLog' = [appendLog EXCEPT ![thr[w].id] =
                        Append(@, [role |-> thr[w].role, content |-> "hi",
                                   at |-> clock])]
    /\ storeWriter' = GuardDropped(w)
    /\ thr' = [thr EXCEPT ![w] = Returned(thr[w], Ok(0))]
    /\ UNCHANGED <<clock, nextConv, removed, updates>>
    /\ UNCHANGED max_age
    /\ UNCHANGED <<regVars, streamVars, authVars, backendVars>>

\* cleanup_old_conversations is called: let now = SystemTime::now().
SweepCall(w) ==
    /\ thr[w].pc = "idle"
    /\ thr' = [thr EXCEPT ![w] = [IdleThread EXCEPT !.pc = "s_lock",
                  !.op = "sweep", !.now = clock]]
    /\ UNCHANGED <<store, storeWriter, clock, nextConv, okAppends, removed>>
    /\ UNCHANGED <<appendLog, updates>>
    /\ UNCHANGED max_age
    /\ UNCHANGED <<regVars, streamVars, authVars, backendVars>>

\* self.conversations.write()
SweepLock(w) ==
    /\ thr[w].pc = "s_lock"
    /\ CanWrite(storeWriter)
    /\ storeWriter' = w
    /\ thr' = [thr EXCEPT ![w].pc = "s_rm"]
    /\ UNCHANGED <<store, clock, nextConv, okAppends, removed>>
    /\ UNCHANGED <<appendLog, updates>>
    /\ UNCHANGED max_age
    /\ UNCHANGED <<regVars, streamVars, authVars, backendVars>>

\* The expired ids are collected and removed, the guard is dropped and the
\* count returned.
SweepRemove(w) ==
    /\ thr[w].pc = "s_rm"
    /\ LET ids == IdsToRemove(store, thr[w].now, max_age)
       IN  /\ store' = MapRemoveAll(store, ids)
           /\ removed' = removed \cup ids
           /\ thr' = [thr EXCEPT ![w] = Returned(thr[w],
                         [tag |-> "Count", val |-> Cardinality(ids)])]
    /\ storeWriter' = GuardDropped(w)
    /\ UNCHANGED <<clock, nextConv, okAppends>>
    /\ UNCHANGED <<appendLog, updates>>
    /\ UNCHANGED max_age
    /\ UNCHANGED <<regVars, streamVars, authVars, backendVars>>

NextStore ==
    \/ Tick
    \/ \E w \in Threads : CreateNew(w)
    \/ \E w \in Threads : CreateInsert(w)
    \/ \E w \in Threads : \E id \in KnownIds : GetConversation(w, id)
    \/ \E w \in Threads, r \in Roles : \E id \in KnownIds : AppendCall(w, id, r)
    \/ \E w \in Threads : AppendLock(w)
    \/ \E w \in Threads : AppendFind(w)
    \/ \E w \in Threads : AppendPush(w)
    \/ \E w \in Threads : SweepCall(w)
    \/ \E w \in Threads : SweepLock(w)
    \/ \E w \in Threads : SweepRemove(w)

(***************************************************************************)
(* conversation.rs: callers that keep the copy get_conversation or         *)
(* create_conversation handed them, change it and write it back.  The copy *)
(* a thread holds is the value of its last result.                         *)
(***************************************************************************)
\* The update_conversation calls made before one more may be made.
UpdateBudget == {0, 1}

\* The threads that append in the runs with copies.
Appenders == {"w2"}

\* The thread holds a Conversation of its own.
HoldsCopy(t) ==
    /\ t.pc = "idle"
    /\ t.op \in {"get", "create", "local"}
    /\ t.res.tag = "Ok"

\* Conversation::set_metadata
SetMetadata(c, key, value) ==
    [c EXCEPT !.metadata = MapInsert(c.metadata, key, value)]

\* Mutant of AfterLocalMutation: the caller's copy aliases the stored entry.
WriteThrough(m, c) == IF c.id \in DOMAIN m THEN MapInsert(m, c.id, c) ELSE m

\* The map after a caller changed its own copy: get_conversation returned
\* a clone, so the map is as before.
AfterLocalMutation(m, c) == m

\* Mutant of Overwrite: an entry updated later than the argument is kept.
InsertIfNewer(m, c) ==
    IF c.id \in DOMAIN m /\ m[c.id].updated_at > c.updated_at
    THEN m
    ELSE MapInsert(m, c.id, c)

\* Mutant of Overwrite: only an entry that is in the map is replaced.
ReplaceExisting(m, c) == IF c.id \in DOMAIN m THEN MapInsert(m, c.id, c) ELSE m

\* conversations.insert(conversation.id.clone(), conversation)
Overwrite(m, c) == MapInsert(m, c.id, c)

\* conversation.add_message(role, content) on the caller's copy.
LocalAddMessage(w, role) ==
    /\ HoldsCopy(thr[w])
    /\ Len(thr[w].res.val.messages) < MaxMsgs
    /\ LET c == AddMessage(thr[w].res.val, role, "local", clock) IN
          /\ thr' = [thr EXCEPT ![w].op = "local", ![w].res = Ok(c)]
          /\ store' = AfterLocalMutation(store, c)
    /\ UNCHANGED <<storeWriter, clock, nextConv, okAppends, removed>>
    /\ UNCHANGED <<appendLog, updates>>
    /\ UNCHANGED max_age
    /\ UNCHANGED <<regVars, streamVars, authVars, backendVars>>

\* conversation.set_metadata("context", "support") on the caller's copy.
LocalSetMetadata(w) ==
    /\ HoldsCopy(thr[w])
    /\ "context" \notin DOMAIN thr[w].res.val.metadata
    /\ LET c == SetMetadata(thr[w].res.val, "context", "support") IN
          /\ thr' = [thr EXCEPT ![w].op = "local", ![w].res = Ok(c)]
          /\ store' = AfterLocalMutation(store, c)
    /\ UNCHANGED <<storeWriter, clock, nextConv, okAppends, removed>>
    /\ UNCHANGED <<appendLog, updates>>
    /\ UNCHANGED max_age
    /\ UNCHANGED <<regVars, streamVars, authVars, backendVars>>

\* The threads inside update_conversation(c) with c.id = id.
InFlightUpdates(id) == {v \in Threads : thr[v].pc = "u_ins" /\ thr[v].id = id}

\* update_conversation(conversation) is called: the copy moves into it.
UpdateCall(w) ==
    /\ HoldsCopy(thr[w])
    /\ updates \in UpdateBudget
    /\ thr' = [thr EXCEPT ![w] = [IdleThread EXCEPT !.pc = "u_ins",
                  !.op = "update", !.id = thr[w].res.val.id,
                  !.entry = thr[w].res.val, !.now = clock,
                  !.raced = (InFlightUpdates(thr[w].res.val.id) # {})]]
    /\ updates' = updates + 1
    /\ UNCHANGED <<store, storeWriter, clock, nextConv, okAppends, removed>>
    /\ UNCHANGED appendLog
    /\ UNCHANGED max_age
    /\ UNCHANGED <<regVars, streamVars, authVars, backendVars>>

\* update_conversation: write(), insert, Ok(()).  The thread keeps what it
\* passed as history.
UpdateInsert(w) ==
    /\ thr[w].pc = "u_ins"
    /\ CanWrite(storeWriter)
    /\ store' = Overwrite(store, thr[w].entry)
    /\ thr' = [thr EXCEPT ![w] = [Returned(thr[w], Ok(0))
                                     EXCEPT !.entry = thr[w].entry]]
    /\ UNCHANGED <<storeWriter, clock, nextConv, okAppends, removed>>
    /\ UNCHANGED <<appendLog, updates>>
    /\ UNCHANGED max_age
    /\ UNCHANGED <<regVars, streamVars, authVars, backendVars>>

NextUpdate ==
    \/ Tick
    \/ \E w \in Threads : nextConv = 1 /\ CreateNew(w)
    \/ \E w \in Threads : CreateInsert(w)
    \/ \E w \in Threads : \E id \in DOMAIN store : GetConversation(w, id)
    \/ \E w \in Threads, r \in Roles : LocalAddMessage(w, r)
    \/ \E w \in Threads : LocalSetMetadata(w)
    \/ \E w \in Threads : UpdateCall(w)
    \/ \E w \in Threads : UpdateInsert(w)
    \/ \E w \in Appenders, r \in Roles : \E id \in DOMAIN store :
          AppendCall(w, id, r)
    \/ \E w \in Threads : AppendLock(w)
    \/ \E w \in Threads : AppendFind(w)
    \/ \E w \in Threads : AppendPush(w)


(***************************************************************************)
(* conversation.rs: one caller making its calls one after the other, as in *)
(* test_add_message_to_conversation.                                       *)
(***************************************************************************)
SeqCaller == "w1"

AllRoles == {"user", "assistant"}

NextSeq ==
    \/ Tick
    \/ CreateNew(SeqCaller)
    \/ CreateInsert(SeqCaller)
    \/ \E id \in KnownIds : GetConversation(SeqCaller, id)
    \/ \E r \in AllRoles : \E id \in KnownIds : AppendCall(SeqCaller, id, r)
    \/ AppendLock(SeqCaller)
    \/ AppendFind(SeqCaller)
    \/ AppendPush(SeqCaller)

(***************************************************************************)
(* conversation.rs: a manager built with a retention of ExpiryAge ticks,   *)
(* watched for ExpiryHorizon ticks, holding one conversation that callers  *)
(* read, append to, write back and sweep.                                  *)
(***************************************************************************)
\* ConversationManager::new(max_age_hours), in ticks of the clock.
ExpiryAge == 1

\* How long the manager is watched.
ExpiryHorizon == 2

InitExpiryStore ==
    /\ store = EmptyMap
    /\ storeWriter = "none"
    /\ clock = 0
    /\ nextConv = 1
    /\ thr = [w \in Threads |-> IdleThread]
    /\ okAppends = [i \in ConvIdPool |-> 0]
    /\ removed = {}
    /\ appendLog = [i \in ConvIdPool |-> <<>>]
    /\ updates = 0
    /\ max_age = ExpiryAge

\* Time passes.
Elapse ==
    /\ clock < ExpiryHorizon
    /\ clock' = clock + 1
    /\ UNCHANGED <<store, storeWriter, nextConv, thr, okAppends, removed>>
    /\ UNCHANGED <<appendLog, updates, max_age>>
    /\ UNCHANGED <<regVars, streamVars, authVars, backendVars>>

NextExpiry ==
    \/ Elapse
    \/ \E w \in Threads : nextConv = 1 /\ CreateNew(w)
    \/ \E w \in Threads : CreateInsert(w)
    \/ \E w \in Threads, r \in Roles : \E id \in DOMAIN store :
           AppendCall(w, id, r)
    \/ \E w \in Threads : AppendLock(w)
    \/ \E w \in Threads : AppendFind(w)
    \/ \E w \in Threads : AppendPush(w)
    \/ \E w \in Threads : \E id \in DOMAIN store : GetConversation(w, id)
    \/ \E w \in Threads : UpdateCall(w)
    \/ \E w \in Threads : UpdateInsert(w)
    \/ \E w \in Threads : SweepCall(w)
    \/ \E w \in Threads : SweepLock(w)
    \/ \E w \in Threads : SweepRemove(w)

(***************************************************************************)
(* conversation.rs: update_conversation with conversations the map does    *)
(* not hold: one a caller built itself with Conversation::new, and the     *)
(* copy of one a sweep has removed since.                                  *)
(***************************************************************************)
\* The ids of the conversations callers build themselves.
ForeignIds == ConvIdPool \ {1}

\* Conversation::new() called by a caller: the conversation is the caller's
\* own and the map is not touched.
LocalNew(w, id) ==
    /\ thr[w].pc = "idle"
    /\ id \notin KnownIds
    /\ \A v \in Threads : thr[v].id # id
    /\ thr' = [thr EXCEPT ![w] = [IdleThread EXCEPT !.op = "local", !.id = id,
                  !.res = Ok(NewConversation(id, clock))]]
    /\ UNCHANGED <<store, storeWriter, clock, nextConv, okAppends, removed>>
    /\ UNCHANGED <<appendLog, updates>>
    /\ UNCHANGED max_age
    /\ UNCHANGED <<regVars, streamVars, authVars, backendVars>>

NextUpsert ==
    \/ Elapse
    \/ \E w \in Threads : nextConv = 1 /\ CreateNew(w)
    \/ \E w \in Threads : CreateInsert(w)
    \/ \E w \in Threads : \E id \in ForeignIds : LocalNew(w, id)
    \/ \E w \in Threads : \E id \in DOMAIN store : GetConversation(w, id)
    \/ \E w \in Threads : UpdateCall(w)
    \/ \E w \in Threads : UpdateInsert(w)
    \/ \E w \in Threads : SweepCall(w)
    \/ \E w \in Threads : SweepLock(w)
    \/ \E w \in Threads : SweepRemove(w)

(***************************************************************************)
(* server.rs and conversation.rs together: requests to /mcp and            *)
(* /mcp/stream, registrations, and calls of the conversation store, all    *)
(* running at once.                                                        *)
(***************************************************************************)
\* The task that dispatches and the task that registers in these runs.
Dispatchers == {"t1"}

Registrars == {"t2"}

\* The envelopes dispatched in these runs.
LockEnvelopes ==
    {m \in SseEnvelopes : m.magic = "MCP0" /\ m.command = <<"a", ":", "x">>}

\* The threads that sweep in these runs; the others append.
Sweepers == Threads \ Appenders

\* A step inside a request or a registration that has begun.
RegistryStep ==
    \/ \E t \in Tasks : CheckMagic(t)
    \/ \E t \in Tasks : AcquireRead(t)
    \/ \E t \in Tasks : Process(t)
    \/ \E t \in Tasks : \E out \in UNION {HandlerOutcomes(n, task[t].msg) :
                                             n \in AgentNames} :
          HandlerReturn(t, out)
    \/ \E t \in Tasks : SendEvent(t)
    \/ \E t \in Tasks : Finish(t)
    \/ \E t \in Tasks : RegisterGranted(t)

\* A step inside a call of the conversation store that has begun.
StoreStep ==
    \/ \E w \in Threads : CreateInsert(w)
    \/ \E w \in Threads : AppendLock(w)
    \/ \E w \in Threads : AppendFind(w)
    \/ \E w \in Threads : AppendPush(w)
    \/ \E w \in Threads : UpdateInsert(w)
    \/ \E w \in Threads : SweepLock(w)
    \/ \E w \in Threads : SweepRemove(w)

NextLocks ==
    \/ \E t \in Dispatchers, k \in {"mcp", "stream"}, m \in LockEnvelopes :
          Receive(t, k, m)
    \/ \E t \in Registrars : RegisterCall(t, <<"a">>)
    \/ RegistryStep
    \/ \E w \in Threads : nextConv = 1 /\ CreateNew(w)
    \/ \E w \in Threads : \E id \in DOMAIN store : GetConversation(w, id)
    \/ \E w \in Appenders, r \in Roles : \E id \in DOMAIN store :
           AppendCall(w, id, r)
    \/ \E w \in Threads : UpdateCall(w)
    \/ \E w \in Sweepers : SweepCall(w)
    \/ StoreStep

(***************************************************************************)
(* streaming.rs: process_json_stream, the line-delimited JSON decoder.     *)
(* The type parameter T is String, so serde_json::from_str accepts exactly *)
(* a JSON string literal.  Stream bytes are one-character strings; the     *)
(* bytes 0xC3 0xA9 are the UTF-8 encoding of U+00E9.  The inputs carry no  *)
(* backslash and no control character other than the line feed.            *)
(***************************************************************************)
\* mpsc::channel(100) of process_json_stream.
ChanCap == 100

LeadByte == "0xC3"

ContByte == "0xA9"

TwoByteChar == "U+00E9"

Replacement == "U+FFFD"

Quote == "\""

Newline == "\n"

DataPrefix == <<"d", "a", "t", "a", ":", " ">>

DoneLine == DataPrefix \o <<"[", "D", "O", "N", "E", "]">>

\* "A"\n"B"\n
InTwoLines == <<Quote, "A", Quote, Newline, Quote, "B", Quote, Newline>>

\* "A"\n"A\n"B"\n : the middle line is an unterminated string literal
InMalformed ==
    <<Quote, "A", Quote, Newline, Quote, "A", Newline,
      Quote, "B", Quote, Newline>>

\* data: "A"\n\ndata: [DONE]\n
InSse ==
    DataPrefix \o <<Quote, "A", Quote, Newline, Newline>> \o DoneLine
        \o <<Newline>>

\* "é"\n as UTF-8 bytes
InTwoByte == <<Quote, LeadByte, ContByte, Quote, Newline>>

\*  "A" \n"B : padded line, then bytes no line feed terminates
InUnterminated == <<" ", Quote, "A", Quote, " ", Newline, Quote, "B">>

Inputs == {InTwoLines, InMalformed, InSse, InTwoByte, InUnterminated}

\* String::from_utf8_lossy over one chunk: a lead byte followed by its
\* continuation byte is one character, any other lead or continuation byte
\* becomes U+FFFD.
RECURSIVE Utf8Lossy(_)
Utf8Lossy(bs) ==
    IF bs = <<>> THEN <<>>
    ELSE IF Head(bs) = LeadByte
         THEN IF Len(bs) >= 2 /\ bs[2] = ContByte
              THEN <<TwoByteChar>> \o Utf8Lossy(SubSeq(bs, 3, Len(bs)))
              ELSE <<Replacement>> \o Utf8Lossy(Tail(bs))
         ELSE IF Head(bs) = ContByte
              THEN <<Replacement>> \o Utf8Lossy(Tail(bs))
              ELSE <<Head(bs)>> \o Utf8Lossy(Tail(bs))

\* str::find(char): index of the first occurrence, 0 for None.
Find(s, c) ==
    IF \E i \in 1..Len(s) : s[i] = c
    THEN CHOOSE i \in 1..Len(s) :
            s[i] = c /\ \A j \in 1..(i - 1) : s[j] # c
    ELSE 0

IsWhitespace(c) == c \in {" ", "\t", "\r", Newline}

RECURSIVE TrimStart(_)
TrimStart(s) ==
    IF s # <<>> /\ IsWhitespace(Head(s)) THEN TrimStart(Tail(s)) ELSE s

RECURSIVE TrimEnd(_)
TrimEnd(s) ==
    IF s # <<>> /\ IsWhitespace(s[Len(s)])
    THEN TrimEnd(SubSeq(s, 1, Len(s) - 1))
    ELSE s

Trim(s) == TrimEnd(TrimStart(s))

\* line.strip_prefix(p).unwrap_or(&line)
StripPrefix(line, p) ==
    IF Len(line) >= Len(p) /\ SubSeq(line, 1, Len(p)) = p
    THEN SubSeq(line, Len(p) + 1, Len(line))
    ELSE line

\* serde_json::from_str::<String>: optional whitespace, a string literal,
\* optional whitespace, end of input.
FromStr(s) ==
    LET t == TrimStart(s) IN
    IF t = <<>> \/ Head(t) # Quote THEN [ok |-> FALSE, val |-> <<>>]
    ELSE LET body == Tail(t)
             q == Find(body, Quote)
         IN  IF q = 0 THEN [ok |-> FALSE, val |-> <<>>]
             ELSE IF TrimStart(SubSeq(body, q + 1, Len(body))) # <<>>
                  THEN [ok |-> FALSE, val |-> <<>>]
                  ELSE [ok |-> TRUE, val |-> SubSeq(body, 1, q - 1)]

\* format!("{:?}", parsed) of a String
DebugFmt(str) == <<Quote>> \o str \o <<Quote>>

StreamingToken(content, is_finish) ==
    [content |-> content, is_finish |-> is_finish, metadata |-> "None"]

FinishToken == StreamingToken(<<>>, TRUE)

DeserializeError == Err(InternalAgentError("Erro ao desserializar"))

NetworkError == Err(InternalAgentError("Erro de rede"))

NoItem == [tag |-> "none"]

\* Mutant of ScanLines: what is left after the last line feed is taken for
\* a line too.
RECURSIVE ScanLinesEager(_)
ScanLinesEager(buf) ==
    LET pos == Find(buf, Newline)
        end == IF pos = 0 THEN Len(buf) + 1 ELSE pos
        line == Trim(SubSeq(buf, 1, end - 1))
        rest == SubSeq(buf, end + 1, Len(buf))
    IN  IF buf = <<>> THEN [pc |-> "pull", buffer |-> buf, item |-> NoItem]
        ELSE IF line = <<>> \/ line = DoneLine THEN ScanLinesEager(rest)
        ELSE IF FromStr(StripPrefix(line, DataPrefix)).ok
             THEN [pc |-> "sendTok", buffer |-> rest,
                   item |-> Ok(StreamingToken(DebugFmt(
                       FromStr(StripPrefix(line, DataPrefix)).val), FALSE))]
             ELSE [pc |-> "sendErr", buffer |-> rest, item |-> DeserializeError]

\* The inner loop `while let Some(pos) = buffer.find('\n')` up to its next
\* send: blank and "data: [DONE]" lines are skipped; the loop ends, back at
\* stream.next(), once the buffer holds no line feed.
RECURSIVE ScanLines(_)
ScanLines(buf) ==
    LET pos == Find(buf, Newline) IN
    IF pos = 0 THEN [pc |-> "pull", buffer |-> buf, item |-> NoItem]
    ELSE LET line == Trim(SubSeq(buf, 1, pos - 1))
             rest == SubSeq(buf, pos + 1, Len(buf))
         IN  IF line = <<>> \/ line = DoneLine THEN ScanLines(rest)
             ELSE LET parsed == FromStr(StripPrefix(line, DataPrefix)) IN
                  IF parsed.ok
                  THEN [pc |-> "sendTok", buffer |-> rest,
                        item |-> Ok(StreamingToken(DebugFmt(parsed.val), FALSE))]
                  ELSE [pc |-> "sendErr", buffer |-> rest,
                        item |-> DeserializeError]

StopAfterDeserializeError(buf) ==
    [pc |-> "sendFinish", buffer |-> buf, item |-> Ok(FinishToken)]

\* After the Err arm of the match on from_str the inner loop goes on.
AfterDeserializeError(buf) == ScanLines(buf)

ExitOnTransportError == "done"

\* Mutant of AfterTransportError: the loop over the source goes on.
ContinueAfterTransportError == "pull"

\* `break` of the outer loop: the finish token is sent next.
AfterTransportError == "sendFinish"

\* Mutant of SendReturns: the send never waits for room.
SendReturnsAtOnce == TRUE

\* tx.send(..).await returns: Err at once when the receiver is gone,
\* otherwise when the channel has room.
SendReturns == ~rxAlive \/ Len(chan) < ChanCap

InitStream ==
    /\ input = <<>>
    /\ source = <<>>
    /\ buffer = <<>>
    /\ dpc = "new"
    /\ pending = NoItem
    /\ chan = <<>>
    /\ delivered = <<>>
    /\ rxAlive = TRUE
    /\ failedSends = 0
    /\ pulledAfterFail = FALSE
    /\ netErr = FALSE

\* process_json_stream(stream): the channel is made and the task spawned.
StartStream(bytes) ==
    /\ dpc = "new"
    /\ input' = bytes
    /\ source' = bytes
    /\ dpc' = "pull"
    /\ UNCHANGED <<buffer, pending, chan, delivered, rxAlive, failedSends,
                   pulledAfterFail, netErr>>
    /\ UNCHANGED <<regVars, storeVars, authVars, backendVars>>

\* stream.next() yields Ok(chunk), the next k bytes of the source.
PullChunk(k) ==
    /\ dpc = "pull"
    /\ k \in 1..Len(source)
    /\ LET s == ScanLines(buffer \o Utf8Lossy(SubSeq(source, 1, k))) IN
          /\ dpc' = s.pc
          /\ buffer' = s.buffer
          /\ pending' = s.item
    /\ source' = SubSeq(source, k + 1, Len(source))
    /\ pulledAfterFail' = (pulledAfterFail \/ failedSends > 0)
    /\ UNCHANGED <<input, chan, delivered, rxAlive, failedSends, netErr>>
    /\ UNCHANGED <<regVars, storeVars, authVars, backendVars>>

\* stream.next() yields Err(e).
PullError ==
    /\ dpc = "pull"
    /\ ~netErr
    /\ dpc' = "sendNetErr"
    /\ pending' = NetworkError
    /\ netErr' = TRUE
    /\ UNCHANGED <<input, source, buffer, chan, delivered, rxAlive,
                   failedSends, pulledAfterFail>>
    /\ UNCHANGED <<regVars, storeVars, authVars, backendVars>>

\* stream.next() yields None.
PullEnd ==
    /\ dpc = "pull"
    /\ source = <<>>
    /\ dpc' = "sendFinish"
    /\ pending' = Ok(FinishToken)
    /\ UNCHANGED <<input, source, buffer, chan, delivered, rxAlive,
                   failedSends, pulledAfterFail, netErr>>
    /\ UNCHANGED <<regVars, storeVars, authVars, backendVars>>

\* tx.send(Ok(token)).await; on Err the `break` leaves the inner loop only.
SendToken ==
    /\ dpc = "sendTok"
    /\ SendReturns
    /\ IF rxAlive
       THEN /\ chan' = Append(chan, pending)
            /\ LET s == ScanLines(buffer) IN
                  /\ dpc' = s.pc
                  /\ buffer' = s.buffer
                  /\ pending' = s.item
            /\ UNCHANGED failedSends
       ELSE /\ failedSends' = failedSends + 1
            /\ dpc' = "pull"
            /\ pending' = NoItem
            /\ UNCHANGED <<chan, buffer>>
    /\ UNCHANGED <<input, source, delivered, rxAlive, pulledAfterFail, netErr>>
    /\ UNCHANGED <<regVars, storeVars, authVars, backendVars>>

\* let _ = tx.send(Err(..deserialize..)).await
SendError ==
    /\ dpc = "sendErr"
    /\ SendReturns
    /\ IF rxAlive
       THEN chan' = Append(chan, pending) /\ UNCHANGED failedSends
       ELSE failedSends' = failedSends + 1 /\ UNCHANGED chan
    /\ LET s == AfterDeserializeError(buffer) IN
          /\ dpc' = s.pc
          /\ buffer' = s.buffer
          /\ pending' = s.item
    /\ UNCHANGED <<input, source, delivered, rxAlive, pulledAfterFail, netErr>>
    /\ UNCHANGED <<regVars, storeVars, authVars, backendVars>>

\* let _ = tx.send(Err(..network..)).await; break
SendNetErr ==
    /\ dpc = "sendNetErr"
    /\ SendReturns
    /\ IF rxAlive
       THEN chan' = Append(chan, pending) /\ UNCHANGED failedSends
       ELSE failedSends' = failedSends + 1 /\ UNCHANGED chan
    /\ dpc' = AfterTransportError
    /\ pending' = IF AfterTransportError = "sendFinish"
                  THEN Ok(FinishToken) ELSE NoItem
    /\ UNCHANGED <<input, source, buffer, delivered, rxAlive,
                   pulledAfterFail, netErr>>
    /\ UNCHANGED <<regVars, storeVars, authVars, backendVars>>

\* let _ = tx.send(Ok(finish token)).await; the task ends.
SendFinish ==
    /\ dpc = "sendFinish"
    /\ SendReturns
    /\ IF rxAlive
       THEN chan' = Append(chan, pending) /\ UNCHANGED failedSends
       ELSE failedSends' = failedSends + 1 /\ UNCHANGED chan
    /\ dpc' = "done"
    /\ pending' = NoItem
    /\ UNCHANGED <<input, source, buffer, delivered, rxAlive,
                   pulledAfterFail, netErr>>
    /\ UNCHANGED <<regVars, storeVars, authVars, backendVars>>

\* The consumer polls the TokenStream and gets the next item.
Recv ==
    /\ rxAlive
    /\ chan # <<>>
    /\ delivered' = Append(delivered, Head(chan))
    /\ chan' = Tail(chan)
    /\ UNCHANGED <<input, source, buffer, dpc, pending, rxAlive, failedSends,
                   pulledAfterFail, netErr>>
    /\ UNCHANGED <<regVars, storeVars, authVars, backendVars>>

\* The consumer drops the TokenStream: the channel is closed.  What the
\* channel still holds is never read.
DropConsumer ==
    /\ rxAlive
    /\ dpc # "new"
    /\ rxAlive' = FALSE
    /\ UNCHANGED <<input, source, buffer, dpc, pending, chan, delivered,
                   failedSends, pulledAfterFail, netErr>>
    /\ UNCHANGED <<regVars, storeVars, authVars, backendVars>>

NextStream ==
    \/ \E bytes \in Inputs : StartStream(bytes)
    \/ \E k \in 1..Len(source) : PullChunk(k)
    \/ PullError
    \/ PullEnd
    \/ SendToken
    \/ SendError
    \/ SendNetErr
    \/ SendFinish
    \/ Recv
    \/ DropConsumer

\* The lines of the long input: one more than the channel holds.
ManyLines == 101

OneLine == <<Quote, "A", Quote, Newline>>

\* "A"\n repeated ManyLines times.
InManyLines == [i \in 1..(ManyLines * Len(OneLine)) |->
                   OneLine[((i - 1) % Len(OneLine)) + 1]]

\* The decoder on the long input, which the source hands over line by
\* line, with a consumer that keeps the stream and polls when it likes.
NextStreamFull ==
    \/ StartStream(InManyLines)
    \/ PullChunk(Len(OneLine))
    \/ PullError
    \/ PullEnd
    \/ SendToken
    \/ SendNetErr
    \/ SendFinish
    \/ Recv

(***************************************************************************)
(* auth.rs: AuthConfig handles and their shared token set; server.rs: the  *)
(* advanced server, which is given an AuthConfig, serving POST /mcp.       *)
(***************************************************************************)
MaxHandles == 3

Handles == 1..MaxHandles

Tokens == {"tok1", "tok2"}

\* Authorization: Bearer <token>, or no such header.
Bearers == Tokens \cup {"absent"}

NoCheck == [h |-> 0, token |-> "", res |-> FALSE]

IdleRequest == [pc |-> "idle", bearer |-> "absent", dispatched |-> FALSE]

\* Mutant of CloneTokens: the clone gets a token set of its own.
CloneTokensDeep(ptr, fresh) == fresh

\* #[derive(Clone)] on AuthConfig: Arc::clone, the same token set.
CloneTokens(ptr, fresh) == ptr

\* HashSet::contains under tokens.read()
Contains(set, token) == token \in set

InitAuth ==
    /\ cfg = [h \in Handles |-> 0]
    /\ family = [h \in Handles |-> 0]
    /\ sets = [i \in Handles |-> {}]
    /\ nextHandle = 1
    /\ nextSet = 1
    /\ addedTo = [h \in Handles |-> {}]
    /\ check = NoCheck
    /\ srv = 0
    /\ req = IdleRequest

\* AuthConfig::new(): a handle on a fresh, empty token set.
AuthNew ==
    /\ nextHandle \in Handles
    /\ cfg' = [cfg EXCEPT ![nextHandle] = nextSet]
    /\ family' = [family EXCEPT ![nextHandle] = nextHandle]
    /\ sets' = [sets EXCEPT ![nextSet] = {}]
    /\ nextHandle' = nextHandle + 1
    /\ nextSet' = nextSet + 1
    /\ UNCHANGED <<addedTo, check, srv, req>>
    /\ UNCHANGED <<regVars, storeVars, streamVars, backendVars>>

\* config.clone()
AuthClone(g) ==
    /\ nextHandle \in Handles
    /\ cfg[g] # 0
    /\ LET target == CloneTokens(cfg[g], nextSet)
       IN  /\ cfg' = [cfg EXCEPT ![nextHandle] = target]
           /\ sets' = [sets EXCEPT ![target] = sets[cfg[g]]]
           /\ nextSet' = IF target = nextSet THEN nextSet + 1 ELSE nextSet
    /\ family' = [family EXCEPT ![nextHandle] = family[g]]
    /\ nextHandle' = nextHandle + 1
    /\ UNCHANGED <<addedTo, check, srv, req>>
    /\ UNCHANGED <<regVars, storeVars, streamVars, backendVars>>

\* add_token: tokens.insert(token) under tokens.write().
AddToken(h, token) ==
    /\ cfg[h] # 0
    /\ sets' = [sets EXCEPT ![cfg[h]] = @ \cup {token}]
    /\ addedTo' = [addedTo EXCEPT ![family[h]] = @ \cup {token}]
    /\ UNCHANGED <<cfg, family, nextHandle, nextSet, check, srv, req>>
    /\ UNCHANGED <<regVars, storeVars, streamVars, backendVars>>

\* is_valid_token: tokens.contains(token) under tokens.read().
IsValidToken(h, token) ==
    /\ cfg[h] # 0
    /\ check' = [h |-> h, token |-> token,
                 res |-> Contains(sets[cfg[h]], token)]
    /\ UNCHANGED <<cfg, family, sets, nextHandle, nextSet, addedTo, srv, req>>
    /\ UNCHANGED <<regVars, storeVars, streamVars, backendVars>>

\* run_http_server_with_auth(registry, auth_config, ..): the server keeps
\* the AuthConfig it was given, in its state and as an Extension layer.
StartServer(h) ==
    /\ srv = 0
    /\ cfg[h] # 0
    /\ srv' = h
    /\ UNCHANGED <<cfg, family, sets, nextHandle, nextSet, addedTo, check, req>>
    /\ UNCHANGED <<regVars, storeVars, streamVars, backendVars>>

\* A POST /mcp request reaches the advanced server.
AuthRequest(bearer) ==
    /\ srv # 0
    /\ req.pc = "idle"
    /\ req' = [pc |-> "extract", bearer |-> bearer, dispatched |-> FALSE]
    /\ UNCHANGED <<cfg, family, sets, nextHandle, nextSet, addedTo, check, srv>>
    /\ UNCHANGED <<regVars, storeVars, streamVars, backendVars>>

\* The extractors of handle_mcp, State<AppState> and Json<MCPMessage>:
\* neither reads the Authorization header nor the token set, so the
\* request is let through to the handler body whatever it carries.
ExtractorsAccept(bearer, tokens) == TRUE

\* axum runs the extractors of handle_mcp, then its body.
AuthExtract ==
    /\ req.pc = "extract"
    /\ req' = [req EXCEPT !.pc = IF ExtractorsAccept(req.bearer,
                                         sets[cfg[srv]])
                                 THEN "process" ELSE "rejected"]
    /\ UNCHANGED <<cfg, family, sets, nextHandle, nextSet, addedTo, check, srv>>
    /\ UNCHANGED <<regVars, storeVars, streamVars, backendVars>>

\* handle_mcp hands the envelope to the registry: reg.process(payload).
AuthDispatch ==
    /\ req.pc = "process"
    /\ req' = [req EXCEPT !.pc = "done", !.dispatched = TRUE]
    /\ UNCHANGED <<cfg, family, sets, nextHandle, nextSet, addedTo, check, srv>>
    /\ UNCHANGED <<regVars, storeVars, streamVars, backendVars>>

\* The response is written and the next request can come.
AuthRespond ==
    /\ req.pc \in {"done", "rejected"}
    /\ req' = IdleRequest
    /\ UNCHANGED <<cfg, family, sets, nextHandle, nextSet, addedTo, check, srv>>
    /\ UNCHANGED <<regVars, storeVars, streamVars, backendVars>>

NextAuth ==
    \/ AuthNew
    \/ \E g \in Handles : AuthClone(g)
    \/ \E h \in Handles, token \in Tokens : AddToken(h, token)
    \/ \E h \in Handles, token \in Tokens : IsValidToken(h, token)
    \/ \E h \in Handles : StartServer(h)
    \/ \E b \in Bearers : AuthRequest(b)
    \/ AuthExtract
    \/ AuthDispatch
    \/ AuthRespond

(***************************************************************************)
(* agent_openai.rs, agent_deepseek.rs: process_request of the two agents   *)
(* that call a backend over HTTP.                                          *)
(***************************************************************************)
BackendAgents == {"openai", "deepseek"}

\* payload.get("user_prompt"): no such field, a number, or a string.
Prompts == {"absent", "number", "hello", "bye"}

\* The status codes the backend answers with.
Statuses == {200, 204, 401, 500}

\* The response body: a completion with one choice, one with none, or
\* bytes that are not a completion.
Bodies == {"one_choice", "no_choice", "garbage"}

IdleCall ==
    [pc |-> "idle", agent |-> "openai", prompt |-> "absent", posts |-> 0,
     status |-> 0, body |-> "", res |-> NoResult]

\* Mutant of AsStr: any value that is present is taken for the prompt.
AsStrAny(v) == v # "absent"

\* .get("user_prompt").and_then(Value::as_str) is Some: the field is there
\* and is a JSON string.
AsStr(v) == v \in {"hello", "bye"}

\* StatusCode::is_success
IsSuccess(status) == status \in 200..299

\* The display name in the agent's status error.
ApiName(agent) == IF agent = "openai" THEN "OpenAI" ELSE "DeepSeek"

InitBackend == call = IdleCall

\* process_request(message) is called.
CallAgent(agent, prompt) ==
    /\ call.pc = "idle"
    /\ call' = [IdleCall EXCEPT !.pc = "validate", !.agent = agent,
                                !.prompt = prompt]
    /\ UNCHANGED built
    /\ UNCHANGED <<regVars, storeVars, streamVars, authVars>>

\* user_prompt is extracted, or the call fails with "Missing user_prompt".
ValidatePrompt ==
    /\ call.pc = "validate"
    /\ call' = IF AsStr(call.prompt)
               THEN [call EXCEPT !.pc = "post"]
               ELSE [call EXCEPT !.pc = "done",
                        !.res = Err(InternalAgentError("Missing user_prompt"))]
    /\ UNCHANGED built
    /\ UNCHANGED <<regVars, storeVars, streamVars, authVars>>

\* self.http_client.post(url, body, headers).await fails in transport.
PostFails ==
    /\ call.pc = "post"
    /\ call' = [call EXCEPT !.pc = "done", !.posts = @ + 1,
                            !.res = Err(InternalAgentError("transport"))]
    /\ UNCHANGED built
    /\ UNCHANGED <<regVars, storeVars, streamVars, authVars>>

\* self.http_client.post(url, body, headers).await returns a response.
PostAnswers(status, body) ==
    /\ call.pc = "post"
    /\ call' = [call EXCEPT !.pc = "status", !.posts = @ + 1,
                            !.status = status, !.body = body]
    /\ UNCHANGED built
    /\ UNCHANGED <<regVars, storeVars, streamVars, authVars>>

\* if !response.status().is_success() { return Err(..) }
CheckStatus ==
    /\ call.pc = "status"
    /\ call' = IF IsSuccess(call.status)
               THEN [call EXCEPT !.pc = "parse"]
               ELSE [call EXCEPT !.pc = "done",
                        !.res = Err(InternalAgentError(
                            <<ApiName(call.agent), " API retornou status ",
                              call.status>>))]
    /\ UNCHANGED built
    /\ UNCHANGED <<regVars, storeVars, streamVars, authVars>>

\* response.json(), choices.get(0), and the answer envelope.
ParseBody ==
    /\ call.pc = "parse"
    /\ call' = [call EXCEPT !.pc = "done",
                    !.res = CASE call.body = "garbage" ->
                                     Err(InternalAgentError("decode"))
                              [] call.body = "no_choice" ->
                                     Err(InternalAgentError("No response choices"))
                              [] call.body = "one_choice" ->
                                     Ok(NewMessage(<<call.agent, "_response">>,
                                                   "answer"))]
    /\ UNCHANGED built
    /\ UNCHANGED <<regVars, storeVars, streamVars, authVars>>

\* The caller has the result; the agent can be called again.
CallReturns ==
    /\ call.pc = "done"
    /\ call' = IdleCall
    /\ UNCHANGED built
    /\ UNCHANGED <<regVars, storeVars, streamVars, authVars>>

NextBackend ==
    \/ \E a \in BackendAgents, p \in Prompts : CallAgent(a, p)
    \/ ValidatePrompt
    \/ PostFails
    \/ \E st \in Statuses, b \in Bodies : PostAnswers(st, b)
    \/ CheckStatus
    \/ ParseBody
    \/ CallReturns

(***************************************************************************)
(* client.rs: create_mcp_message_for_agent, and the routing of what it     *)
(* builds by a registry that holds the agent.                              *)
(***************************************************************************)
MaxNameLen == 2

MaxActionLen == 3

\* The strings over alphabet of length at most n.
RECURSIVE StringsUpTo(_, _)
StringsUpTo(alphabet, n) ==
    IF n = 0 THEN {<<>>}
    ELSE LET shorter == StringsUpTo(alphabet, n - 1)
         IN  shorter \cup {Append(w, c) : w \in shorter, c \in alphabet}

\* Agent names: no ':' in them.
ClientAgents == StringsUpTo({"a", "b"}, MaxNameLen)

\* Actions: ':' may occur anywhere in them.
ClientActions == StringsUpTo({"x", ":"}, MaxActionLen)

NothingBuilt ==
    [pc |-> "none", agent |-> <<>>, action |-> <<>>, payload |-> "",
     msg |-> NoMessage, route |-> [kind |-> "none", err |-> InvalidCommandFormat,
                                   inst |-> 0]]

InitClient == built = NothingBuilt

\* format!("{}:{}", agent, action) and MCPMessage::new(&command, payload)
CreateMcpMessageForAgent(agent, action, payload) ==
    NewMessage(agent \o <<":">> \o action, payload)

\* A client builds an envelope for an agent.
BuildMessage(agent, action, payload) ==
    /\ built' = [NothingBuilt EXCEPT !.pc = "built", !.agent = agent,
                    !.action = action, !.payload = payload,
                    !.msg = CreateMcpMessageForAgent(agent, action, payload)]
    /\ UNCHANGED call
    /\ UNCHANGED <<regVars, storeVars, streamVars, authVars>>

\* The envelope is dispatched by a registry in which the agent, and only
\* the agent, is registered (as capability 1).
RouteBuilt ==
    /\ built.pc = "built"
    /\ built' = [built EXCEPT !.pc = "routed",
                    !.route = Route(RegisterAgent(EmptyMap,
                                        [id |-> 1, name |-> built.agent]),
                                    built.msg)]
    /\ UNCHANGED call
    /\ UNCHANGED <<regVars, storeVars, streamVars, authVars>>

NextClient ==
    \/ \E a \in ClientAgents, x \in ClientActions, p \in Payloads :
          BuildMessage(a, x, p)
    \/ RouteBuilt

Init ==
    /\ InitRegistry /\ InitStore /\ InitStream
    /\ InitAuth /\ InitBackend /\ InitClient

Spec == Init /\ [][NextDispatch]_vars

SpecStore == Init /\ [][NextStore]_vars

SpecStream == Init /\ [][NextStream]_vars

SpecUpdate == Init /\ [][NextUpdate]_vars

SpecSeq == Init /\ [][NextSeq]_vars

InitExpiry ==
    /\ InitRegistry /\ InitExpiryStore /\ InitStream
    /\ InitAuth /\ InitBackend /\ InitClient

SpecAuth == Init /\ [][NextAuth]_vars

SpecBackend == Init /\ [][NextBackend]_vars

SpecClient == Init /\ [][NextClient]_vars

SpecExpiry == InitExpiry /\ [][NextExpiry]_vars

SpecUpsert == InitExpiry /\ [][NextUpsert]_vars

SpecSse == Init /\ [][NextSse]_vars

SpecReplace == Init /\ [][NextReplace]_vars

SpecVersion == Init /\ [][NextVersion]_vars

SpecColon == Init /\ [][NextColon]_vars

SpecLocks == Init /\ [][NextLocks]_vars

\* One step of the task process_json_stream spawned.
DecoderStep ==
    \/ \E k \in 1..Len(source) : PullChunk(k)
    \/ PullError
    \/ PullEnd
    \/ SendToken
    \/ SendError
    \/ SendNetErr
    \/ SendFinish

\* The decoder with a consumer that never drops the TokenStream.
NextStreamLive ==
    \/ \E bytes \in Inputs : StartStream(bytes)
    \/ DecoderStep
    \/ Recv

\* The runtime keeps polling the spawned task, the source answers every
\* stream.next(), and the consumer keeps polling the TokenStream.
SpecStreamFull == Init /\ [][NextStreamFull]_vars

SpecStreamLive ==
    /\ Init
    /\ [][NextStreamLive]_vars
    /\ WF_vars(DecoderStep)
    /\ WF_vars(Recv)

(***************************************************************************)
(* Claims about the dispatch service and the registry.                     *)
(***************************************************************************)
HasColon(s) == \E i \in 1..Len(s) : s[i] = ":"

\* The routing key of a command: what precedes its first ':'.
IsKeyOf(a, s) ==
    /\ ~HasColon(a)
    /\ Len(s) > Len(a)
    /\ SubSeq(s, 1, Len(a)) = a
    /\ s[Len(a) + 1] = ":"

Prefixes(s) == {SubSeq(s, 1, n) : n \in 0..Len(s)}

\* C1: an envelope whose magic is not "MCP0" never reaches the registry or a
\* handler, whatever its command and payload, and handle_mcp answers it with
\* Ok(envelope) whose command is "error", never with an MCPError.
C1_BadMagicSoftError ==
    \A t \in Tasks :
        (task[t].pc # "idle" /\ task[t].msg.magic # "MCP0") =>
            /\ task[t].pc \in {"magic", "done"}
            /\ ~task[t].consulted
            /\ task[t].inst = 0
            /\ t \notin regReaders
            /\ (task[t].pc = "done" /\ task[t].kind = "mcp") =>
                   /\ task[t].resp.tag = "Ok"
                   /\ task[t].resp.val.command = <<"error">>
                   /\ task[t].resp.val.magic = "MCP0"

\* C1 witness: handle_mcp has answered bad-magic envelopes, one without a
\* separator and one naming an agent, while that agent is registered.
C1_Witness ==
    /\ \E t \in Tasks :
          /\ task[t].pc = "done" /\ task[t].kind = "mcp"
          /\ task[t].msg.magic = "XXXX" /\ task[t].msg.command = <<"a", "x">>
          /\ task[t].resp.tag = "Ok"
    /\ \E t \in Tasks :
          /\ task[t].pc = "done" /\ task[t].kind = "mcp"
          /\ task[t].msg.magic = "XXXX" /\ task[t].msg.command = <<"a", ":", "x">>
          /\ <<"a">> \in DOMAIN agents

\* C2: a command without ':' fails with InvalidCommandFormat, a command whose
\* key a is not registered fails with AgentNotRegistered(a); neither invokes
\* a handler and the registry is the same after the call as before it.
C2_RoutingErrors ==
    \A t \in Tasks :
        (task[t].consulted /\ task[t].pc \in {"send", "done"}) =>
            LET c == task[t].msg.command
            IN  /\ ~HasColon(c) =>
                      /\ task[t].resp = Err(InvalidCommandFormat)
                      /\ task[t].inst = 0
                      /\ task[t].regAfter = task[t].regBefore
                /\ \A a \in Prefixes(c) :
                      (IsKeyOf(a, c) /\ a \notin DOMAIN task[t].regBefore) =>
                          /\ task[t].resp = Err(AgentNotRegistered(a))
                          /\ task[t].inst = 0
                          /\ task[t].regAfter = task[t].regBefore

\* C2 witness: with "a" registered, one dispatch failed on a command without
\* separator and another on the unregistered key "b" of "b:x".
C2_Witness ==
    /\ <<"a">> \in DOMAIN agents
    /\ \E t \in Tasks :
          /\ task[t].pc = "done" /\ task[t].consulted
          /\ task[t].msg.command = <<"a", "x">>
          /\ task[t].resp = Err(InvalidCommandFormat)
    /\ \E t \in Tasks :
          /\ task[t].pc = "done" /\ task[t].consulted
          /\ task[t].msg.command = <<"b", ":", "x">>
          /\ task[t].resp = Err(AgentNotRegistered(<<"b">>))


\* C3: the registry holds one capability per registered name, the one
\* registered last under it, and a running handler is always that one: a
\* capability a later registration replaced is never invoked.
C3_LastRegistrationWins ==
    /\ DOMAIN agents = DOMAIN lastReg
    /\ \A n \in DOMAIN agents :
          /\ agents[n].name = n
          /\ agents[n].id = lastReg[n]
    /\ \A r \in replaced : \A n \in DOMAIN agents : agents[n].id # r.id
    /\ \A t \in Tasks :
          task[t].pc = "handler" =>
              /\ \A r \in replaced : r.id # task[t].inst
              /\ \E n \in DOMAIN lastReg :
                    /\ lastReg[n] = task[t].inst
                    /\ IsKeyOf(n, task[t].msg.command)

\* C3 witness: a handler runs for a name under which an earlier capability
\* was registered and replaced.
C3_Witness ==
    \E t \in Tasks : \E r \in replaced :
        /\ task[t].pc = "handler"
        /\ IsKeyOf(r.name, task[t].msg.command)
        /\ task[t].inst = lastReg[r.name]
        /\ task[t].inst # r.id

\* C10: no task holds the Registry's lock while a suspension point that
\* performs I/O is pending: no capability's handler (the backend HTTP call)
\* runs while its dispatching task, handle_mcp or the task of
\* handle_stream_mcp, holds the Registry's lock.
C10_NoLockAcrossHandler ==
    \A t \in Tasks : task[t].pc = "handler" => t \notin regReaders

(***************************************************************************)
(* Claims about the conversation store.                                    *)
(***************************************************************************)
\* C4: appends are atomic: every stored conversation holds exactly one
\* message per append that returned Ok for its id, however the appends
\* interleave, and an append fails only for an id that never existed or
\* that a sweep removed.
C4_AppendAtomic ==
    /\ \A id \in DOMAIN store : Len(store[id].messages) = okAppends[id]
    /\ \A w \in Threads :
          (thr[w].pc = "idle" /\ thr[w].op = "append" /\ thr[w].res.tag = "Err")
              => (thr[w].id = 0 \/ thr[w].id \in removed)

\* C4 witness: two appends to one conversation were in flight together,
\* both returned Ok, and the conversation holds two messages.
C4_Witness ==
    \E id \in DOMAIN store :
        /\ Len(store[id].messages) = 2
        /\ \A w \in Threads :
              /\ thr[w].pc = "idle" /\ thr[w].op = "append"
              /\ thr[w].id = id /\ thr[w].res.tag = "Ok"
        /\ \E w \in Threads : thr[w].raced

\* C5: the removing step of a sweep removes exactly the conversations whose
\* updated_at lies more than max_age before the time the sweep sampled, and
\* leaves every other conversation as it was.
C5_SweepRemovesExactlyExpired ==
    [][\A w \in Threads :
          (thr[w].pc = "s_rm" /\ thr'[w].pc = "idle") =>
              /\ DOMAIN store' \subseteq DOMAIN store
              /\ \A id \in DOMAIN store :
                    IF thr[w].now - store[id].updated_at > MaxAge
                    THEN id \notin DOMAIN store'
                    ELSE id \in DOMAIN store' /\ store'[id] = store[id]]_vars

\* C5 witness: a sweep has returned having removed one conversation while a
\* conversation updated within max_age of its time is still stored.
C5_Witness ==
    \E w \in Threads :
        /\ thr[w].pc = "idle" /\ thr[w].op = "sweep"
        /\ thr[w].res.val = 1
        /\ Cardinality(removed) = 1
        /\ \E id \in DOMAIN store :
              /\ store[id].updated_at <= thr[w].now
              /\ thr[w].now - store[id].updated_at <= MaxAge
              /\ store[id].created_at < store[id].updated_at

(***************************************************************************)
(* Claims about the streaming decoder.                                     *)
(***************************************************************************)
\* Every item a send has accepted, in order.
Accepted == delivered \o chan

IsFinish(item) == item.tag = "Ok" /\ item.val.is_finish

KindOf(item) ==
    IF item.tag = "Err" THEN "error"
    ELSE IF item.val.is_finish THEN "finish" ELSE "token"

Kinds(items) == [i \in 1..Len(items) |-> KindOf(items[i])]

\* The task ran to its end, the source never failed, no send failed.
CleanRun == dpc = "done" /\ ~netErr /\ failedSends = 0

\* What the decoder emits when the whole input arrives as one chunk.
RECURSIVE ItemsOf(_)
ItemsOf(buf) ==
    LET s == ScanLines(buf) IN
    IF s.pc = "pull" THEN <<>> ELSE <<s.item>> \o ItemsOf(s.buffer)

OneChunk(bytes) == ItemsOf(Utf8Lossy(bytes)) \o <<Ok(FinishToken)>>

\* The complete lines of a text, each without its line feed.
RECURSIVE LinesOf(_)
LinesOf(text) ==
    LET pos == Find(text, Newline) IN
    IF pos = 0 THEN <<>>
    ELSE <<SubSeq(text, 1, pos - 1)>>
            \o LinesOf(SubSeq(text, pos + 1, Len(text)))

LineKind(l) ==
    IF Trim(l) = <<>> \/ Trim(l) = DoneLine THEN "skip"
    ELSE IF FromStr(StripPrefix(Trim(l), DataPrefix)).ok THEN "token"
         ELSE "error"

ExpectedKinds(bytes) ==
    SelectSeq([i \in 1..Len(LinesOf(Utf8Lossy(bytes))) |->
                  LineKind(LinesOf(Utf8Lossy(bytes))[i])],
              LAMBDA k : k # "skip")
        \o <<"finish">>

\* C6: for any input and any partition of it into chunks the decoder emits
\* the same items as for the input in one chunk, then one finish token.
C6_ChunkingInvariant == CleanRun => Accepted = OneChunk(input)

\* C7: a malformed line between valid lines gives token, error, token,
\* finish; a deserialization error never stops the decoder: every complete
\* line of the input is decoded and emitted in order, then the finish token.
C7_ErrorDoesNotStopDecoder ==
    CleanRun =>
        /\ Kinds(Accepted) = ExpectedKinds(input)
        /\ input = InMalformed =>
              Kinds(Accepted) = <<"token", "error", "token", "finish">>

C7_Witness ==
    /\ CleanRun
    /\ input = InMalformed
    /\ delivered = Accepted
    /\ Kinds(delivered) = <<"token", "error", "token", "finish">>
    /\ delivered[1].val.content = <<Quote, "A", Quote>>
    /\ delivered[3].val.content = <<Quote, "B", Quote>>

\* C8: no item follows an item with is_finish = true, and a stream whose
\* producer ended with no send refused has exactly one such item, the last,
\* whatever the input, malformed lines and a transport error included.
C8_OneFinishLast ==
    /\ \A i \in 1..Len(Accepted) : IsFinish(Accepted[i]) => i = Len(Accepted)
    /\ (dpc = "done" /\ failedSends = 0) =>
          /\ Accepted # <<>>
          /\ IsFinish(Accepted[Len(Accepted)])
          /\ Cardinality({i \in 1..Len(Accepted) : IsFinish(Accepted[i])}) = 1

C8_Witness ==
    /\ dpc = "done"
    /\ failedSends = 0
    /\ netErr
    /\ input = InMalformed
    /\ delivered = Accepted
    /\ Kinds(delivered) = <<"token", "error", "error", "finish">>

\* C9: once the consumer is dropped the task makes at most one further send
\* attempt and pulls no further chunk from the source.
C9_StopsAfterOneFailedSend == failedSends <= 1 /\ ~pulledAfterFail

(***************************************************************************)
(* Claims about copies of a conversation and update_conversation.          *)
(***************************************************************************)
IsPrefix(s, t) == Len(s) <= Len(t) /\ SubSeq(t, 1, Len(s)) = s

\* Thread w returns from update_conversation in this step.
UpdateReturns(w) == thr[w].pc = "u_ins" /\ thr'[w].pc = "idle"

\* Thread w returns Ok from add_message_to_conversation in this step.
AppendReturnsOk(w) == thr[w].pc = "a_push" /\ thr'[w].pc = "idle"

\* C11: the stored updated_at of a conversation never decreases, and every
\* successful append and every update leaves it not earlier than the time
\* of the operation (for an update: the time it was called).
C11_UpdatedAtMonotone ==
    [][/\ \A id \in DOMAIN store \cap DOMAIN store' :
             store'[id].updated_at >= store[id].updated_at
       /\ \A w \in Threads :
             /\ AppendReturnsOk(w) => store'[thr[w].id].updated_at >= clock
             /\ UpdateReturns(w) =>
                   store'[thr[w].id].updated_at >= thr[w].now]_vars

\* C12 as claimed: across every step, update included, the messages stored
\* under an id before the step are a prefix of those stored after it.
C12_MessagesOnlyGrow ==
    [][\A id \in DOMAIN store \cap DOMAIN store' :
          IsPrefix(store[id].messages, store'[id].messages)]_vars

\* C12: create, get and append never remove or reorder stored messages (an
\* append adds one message at the end); an update stores the message list
\* of its argument in place of the stored one.
C12_MessagesGrowExceptUpdate ==
    [][\A id \in DOMAIN store :
          /\ id \in DOMAIN store'
          /\ IF \E w \in Threads : UpdateReturns(w) /\ thr[w].id = id
             THEN \E w \in Threads :
                     /\ UpdateReturns(w) /\ thr[w].id = id
                     /\ store'[id].messages = thr[w].entry.messages
             ELSE /\ IsPrefix(store[id].messages, store'[id].messages)
                  /\ Len(store'[id].messages) <= Len(store[id].messages) + 1]_vars

\* C12 witness: an update with a copy taken before an append has returned
\* and the conversation, appended to once, holds no message.
C12_Witness ==
    \E w \in Threads :
        /\ thr[w].pc = "idle" /\ thr[w].op = "update"
        /\ thr[w].entry.messages = <<>>
        /\ thr[w].id \in DOMAIN store
        /\ okAppends[thr[w].id] = 1
        /\ store[thr[w].id].messages = <<>>

\* C17: get returns the stored value, and a caller changing its copy (a
\* message added, metadata set) changes nothing in the store: the entry
\* stays as it was until an update writes a copy back.
C17_GetReturnsSnapshot ==
    [][\A w \in Threads :
          /\ (thr'[w].op = "local" /\ thr'[w] # thr[w]) => store' = store
          /\ (thr'[w].op = "get" /\ thr'[w] # thr[w]) =>
                /\ store' = store
                /\ thr'[w].res = Ok(store[thr'[w].id])]_vars

\* C17 witness: one thread has added a message and metadata to its copy,
\* and the other thread's later get returned the stored value without them.
C17_Witness ==
    \E w, v \in Threads :
        /\ thr[w].pc = "idle" /\ thr[w].op = "local"
        /\ Len(thr[w].res.val.messages) = 1
        /\ "context" \in DOMAIN thr[w].res.val.metadata
        /\ thr[v].pc = "idle" /\ thr[v].op = "get"
        /\ thr[v].id = thr[w].res.val.id
        /\ thr[v].res = Ok(store[thr[v].id])
        /\ store[thr[v].id].messages = <<>>
        /\ store[thr[v].id].metadata = EmptyMap
        /\ updates = 0

\* C18: an update stores exactly its argument under the argument's id and
\* touches no other entry; after two updates of one id, the stored value is
\* the argument of one of them, the one that wrote last.
C18_UpdateOverwrites ==
    [][/\ \A w \in Threads :
             UpdateReturns(w) => store' = MapInsert(store, thr[w].id, thr[w].entry)
       /\ \A w, v \in Threads :
             (/\ w # v
              /\ thr'[w].pc = "idle" /\ thr'[w].op = "update"
              /\ thr'[v].pc = "idle" /\ thr'[v].op = "update"
              /\ thr'[w].id = thr'[v].id) =>
                 store'[thr'[w].id] \in {thr'[w].entry, thr'[v].entry}]_vars

\* C18 witness: two updates of one id with different arguments were in
\* flight together; the stored value is one argument and not the other.
C18_Witness ==
    \E w, v \in Threads :
        /\ thr[w].pc = "idle" /\ thr[w].op = "update"
        /\ thr[v].pc = "idle" /\ thr[v].op = "update"
        /\ thr[w].id = thr[v].id
        /\ thr[v].raced
        /\ thr[w].entry # thr[v].entry
        /\ thr[w].entry.messages # <<>>
        /\ thr[v].entry.metadata # EmptyMap
        /\ store[thr[w].id] = thr[w].entry

(***************************************************************************)
(* Claims about one caller's sequence of calls.                            *)
(***************************************************************************)
RolesAndContents(msgs) ==
    [i \in 1..Len(msgs) |-> [role |-> msgs[i].role, content |-> msgs[i].content]]

NonDecreasing(msgs) ==
    \A i, j \in 1..Len(msgs) : i <= j => msgs[i].timestamp <= msgs[j].timestamp

\* C13: after create and k appends made one after the other, get returns
\* the conversation of that id with exactly the k messages appended, in
\* that order, with their roles and contents and non-decreasing timestamps;
\* with no append it returns the conversation empty.
C13_GetAfterAppends ==
    (thr[SeqCaller].pc = "idle" /\ thr[SeqCaller].op = "get"
            /\ thr[SeqCaller].id # 0) =>
        /\ thr[SeqCaller].res.tag = "Ok"
        /\ LET c == thr[SeqCaller].res.val IN
              /\ c.id = thr[SeqCaller].id
              /\ Len(c.messages) = okAppends[c.id]
              /\ RolesAndContents(c.messages) = RolesAndContents(appendLog[c.id])
              /\ NonDecreasing(c.messages)
              /\ c.metadata = EmptyMap

\* C13 witness: get returned a user message followed, later, by an
\* assistant message.
C13_Witness ==
    /\ thr[SeqCaller].pc = "idle" /\ thr[SeqCaller].op = "get"
    /\ thr[SeqCaller].res.tag = "Ok"
    /\ RolesAndContents(thr[SeqCaller].res.val.messages) =
          <<[role |-> "user", content |-> "hi"],
            [role |-> "assistant", content |-> "hi"]>>
    /\ thr[SeqCaller].res.val.messages[1].timestamp <
          thr[SeqCaller].res.val.messages[2].timestamp

(***************************************************************************)
(* Claims about dispatch beside registration.                              *)
(***************************************************************************)
\* C14: dispatches run side by side and beside register without damage to
\* the map: while a dispatch holds its read guard the map is the one it
\* found, and the handler it invokes for a name is the one registered last
\* under that name when the dispatch began, never a replaced one.
C14_DispatchSeesCompletedRegister ==
    /\ \A n \in DOMAIN agents : agents[n].name = n /\ agents[n].id < nextAgent
    /\ \A t \in Tasks :
          /\ task[t].pc \in {"process", "handler"} =>
                t \in regReaders /\ agents = task[t].regBefore
          /\ task[t].pc = "handler" =>
                \E n \in DOMAIN task[t].regBefore :
                    /\ IsKeyOf(n, task[t].msg.command)
                    /\ task[t].inst = task[t].regBefore[n].id
                    /\ task[t].inst = lastReg[n]
                    /\ \A r \in replaced : r.id # task[t].inst

\* C14 witness: two dispatches run the handler of one name at once, after a
\* registration under that name replaced an earlier one.
C14_Witness ==
    \E t, u \in Tasks : \E r \in replaced :
        /\ t # u
        /\ task[t].pc = "handler" /\ task[u].pc = "handler"
        /\ task[t].inst = lastReg[r.name]
        /\ task[u].inst = lastReg[r.name]
        /\ regReaders = {t, u}

(***************************************************************************)
(* Claims about the decoder's lines and its transport error.               *)
(***************************************************************************)
\* The bytes the source has yielded so far.
Consumed == SubSeq(input, 1, Len(input) - Len(source))

\* One item per complete line of a text that is neither blank nor the
\* sentinel, by the rules of the line and not by the decoder's loop.
LineItems(text) ==
    LET ls == SelectSeq(LinesOf(text), LAMBDA l : LineKind(l) # "skip") IN
    [i \in 1..Len(ls) |->
        IF LineKind(ls[i]) = "token"
        THEN Ok(StreamingToken(
                 DebugFmt(FromStr(StripPrefix(Trim(ls[i]), DataPrefix)).val),
                 FALSE))
        ELSE DeserializeError]

HasMultiByte(bytes) ==
    \E i \in 1..Len(bytes) : bytes[i] \in {LeadByte, ContByte}

\* C15: after a transport error no further chunk is consumed; what was
\* emitted stays as it was; the stream ends with exactly one error item for
\* the failure followed by the finish token.
C15_TransportErrorEndsStream ==
    [][/\ netErr' => source' = source
       /\ IsPrefix(Accepted, Accepted')
       /\ (dpc' = "done" /\ netErr' /\ failedSends' = 0) =>
             /\ Len(Accepted') >= 2
             /\ Accepted'[Len(Accepted') - 1] = NetworkError
             /\ IsFinish(Accepted'[Len(Accepted')])
             /\ Cardinality({i \in 1..Len(Accepted') :
                                Accepted'[i] = NetworkError}) = 1]_vars

\* C15 witness: the source failed after its first line with bytes still to
\* come; the stream is the first token, the error, the finish token.
C15_Witness ==
    /\ dpc = "done" /\ netErr /\ failedSends = 0
    /\ input = InTwoLines
    /\ source # <<>>
    /\ delivered = <<Ok(StreamingToken(<<Quote, "A", Quote>>, FALSE)),
                     NetworkError, Ok(FinishToken)>>

\* C16: while the consumer receives, the items emitted are, in order, those
\* of the complete lines of the bytes that have arrived: none before its
\* line feed has arrived, all of them once the decoder is back at the
\* source, a token for a line that parses and an error item otherwise,
\* nothing for blank and sentinel lines; the finish token comes only at
\* the end.
C16_OneItemPerCompleteLine ==
    (dpc # "new" /\ failedSends = 0 /\ ~netErr) =>
        LET emitted == IF dpc = "done"
                       THEN SubSeq(Accepted, 1, Len(Accepted) - 1)
                       ELSE Accepted
            due == LineItems(Utf8Lossy(Consumed))
        IN  /\ IsPrefix(Kinds(emitted), Kinds(due))
            /\ \A i \in 1..Len(emitted) : ~IsFinish(emitted[i])
            /\ dpc \in {"pull", "sendFinish", "done"} =>
                  Kinds(emitted) = Kinds(due)
            /\ dpc = "done" => Consumed = input /\ IsFinish(Accepted[Len(Accepted)])
            /\ ~HasMultiByte(input) => IsPrefix(emitted, due)

\* C16 witness: a prefixed line, a blank line and the sentinel line gave
\* one token and the finish token.
C16_Witness ==
    /\ CleanRun
    /\ input = InSse
    /\ delivered = <<Ok(StreamingToken(<<Quote, "A", Quote>>, FALSE)),
                     Ok(FinishToken)>>

(***************************************************************************)
(* Claims about appends to an unknown id and about expiry.                 *)
(***************************************************************************)
\* Thread w takes a step of its add_message_to_conversation call while the
\* id it names is not in the map.
AppendStepOnMissingId(w) ==
    /\ thr[w].pc \in {"a_lock", "a_find"}
    /\ thr'[w] # thr[w]
    /\ thr[w].id \notin DOMAIN store

\* C19: add_message_to_conversation on an id that is not in the map returns
\* the not-found error and leaves the store exactly as it was: no entry is
\* created, none is changed.
C19_AppendToMissingIdFails ==
    [][\A w \in Threads :
          AppendStepOnMissingId(w) =>
              /\ store' = store
              /\ thr[w].pc = "a_find" =>
                     /\ thr'[w].pc = "idle"
                     /\ thr'[w].res = Err("Conversa nao encontrada")]_vars

\* An append to an id that a sweep removed has returned the error while
\* another conversation is stored.
C19_Witness ==
    \E w \in Threads :
        /\ thr[w].pc = "idle"
        /\ thr[w].op = "append"
        /\ thr[w].res = Err("Conversa nao encontrada")
        /\ thr[w].id \in removed
        /\ thr[w].id \notin DOMAIN store
        /\ store # EmptyMap

\* Thread w's cleanup_old_conversations removes its ids and returns.
SweepReturns(w) == thr[w].pc = "s_rm" /\ thr'[w].pc = "idle"

\* An append to conversation id returned Ok within the last max_age.
RecentlyAppended(id) ==
    \E k \in 1..Len(appendLog[id]) : clock - appendLog[id][k].at <= max_age

\* C20: expiry depends only on updated_at, never on created_at: no sweep
\* removes a conversation that received a successful append within the last
\* max_age, however long ago it was created.
C20_ActiveNeverRemoved ==
    [][\A w \in Threads :
          SweepReturns(w) =>
              \A id \in (DOMAIN store) \ (DOMAIN store') :
                  ~RecentlyAppended(id)]_vars

(***************************************************************************)
(* Claims about a sweep running among the other calls.                     *)
(***************************************************************************)
\* Thread w's get_conversation returns.
GetReturns(w) == thr[w].pc = "idle" /\ thr'[w] # thr[w] /\ thr'[w].op = "get"

\* Thread w's add_message_to_conversation pushes its message and returns Ok.
AppendPushes(w) == thr[w].pc = "a_push" /\ thr'[w].pc = "idle"

\* C21: a sweep may run among create, append and get: a get returns None
\* or a whole conversation (its id, and exactly the messages of the appends
\* that returned Ok), an append that returns Ok has stored its message in a
\* conversation that was in the map at that moment, an append that fails
\* returns not-found, and the count a sweep returns is the number of entries
\* it took out of the map.
C21_SweepAmongOtherCalls ==
    [][\A w \in Threads :
          /\ GetReturns(w) =>
                \/ thr'[w].res = NoResult /\ thr'[w].id \notin DOMAIN store
                \/ /\ thr'[w].res.tag = "Ok"
                   /\ thr'[w].res.val.id = thr'[w].id
                   /\ RolesAndContents(thr'[w].res.val.messages)
                          = RolesAndContents(appendLog[thr'[w].id])
          /\ AppendPushes(w) =>
                /\ thr[w].id \in DOMAIN store
                /\ thr[w].id \in DOMAIN store'
                /\ thr'[w].res.tag = "Ok"
                /\ Len(store'[thr[w].id].messages)
                       = Len(store[thr[w].id].messages) + 1
                /\ SubSeq(store'[thr[w].id].messages, 1,
                          Len(store[thr[w].id].messages))
                       = store[thr[w].id].messages
          /\ (thr[w].pc = "a_find" /\ thr'[w].pc = "idle") =>
                thr'[w].res = Err("Conversa nao encontrada")
          /\ SweepReturns(w) =>
                /\ thr'[w].res.val
                       = Cardinality((DOMAIN store) \ (DOMAIN store'))
                /\ DOMAIN store' \subseteq DOMAIN store
                /\ \A id \in DOMAIN store' : store'[id] = store[id]]_vars

\* A sweep holds the write guard and is about to remove a conversation
\* while an append to that conversation waits for the guard and the other
\* conversation stays.
C21_Witness ==
    \E w, v \in Threads :
        /\ thr[w].pc = "s_rm"
        /\ thr[v].pc = "a_lock"
        /\ thr[v].id \in IdsToRemove(store, thr[w].now, max_age)
        /\ (DOMAIN store) \ IdsToRemove(store, thr[w].now, max_age) # {}

(***************************************************************************)
(* Claims about the errors that leave the registry and the server.         *)
(***************************************************************************)
\* Task t has the result of reg.process(..) for an envelope that was routed
\* to a handler.
RoutedAndBack(t) == task[t].pc \in {"send", "done"} /\ task[t].inst # 0

\* C22: every error that leaves AgentRegistry::process because a handler
\* failed is an InternalAgentError, whatever error the handler returned.
C22_HandlerErrorsLeaveAsInternal ==
    \A t \in Tasks :
        (RoutedAndBack(t) /\ task[t].out.tag = "Err") =>
            /\ task[t].resp.tag = "Err"
            /\ task[t].resp.val.variant = "InternalAgentError"

\* C30: an error a handler returns is the error AgentRegistry::process
\* returns, same variant and same detail; the handler is called once for a
\* routed envelope and never for one that was not routed.
C30_HandlerErrorUnchanged ==
    \A t \in Tasks :
        /\ RoutedAndBack(t) =>
              /\ task[t].calls = 1
              /\ task[t].resp = task[t].out
        /\ (task[t].pc \in {"send", "done"} /\ task[t].inst = 0) =>
              task[t].calls = 0
        /\ task[t].calls <= 1

\* Process has returned, to handle_mcp and to the streaming task, the
\* InvalidCommandFormat and the InternalAgentError that handlers returned
\* for commands that do have a separator.
C30_Witness ==
    \E t, u \in Tasks :
        /\ RoutedAndBack(t) /\ task[t].kind = "mcp"
        /\ HasColon(task[t].msg.command)
        /\ task[t].out = Err(InvalidCommandFormat)
        /\ task[t].resp = Err(InvalidCommandFormat)
        /\ RoutedAndBack(u) /\ task[u].kind = "stream"
        /\ task[u].resp = Err(InternalAgentError("backend"))

Is2xx(status) == status \in 200..299

\* C23: for an envelope with the right magic, handle_mcp turns every error
\* of the registry (InvalidCommandFormat, AgentNotRegistered, the handler's
\* error) into a response outside 2xx whose body is {error: <its text>} and
\* no envelope, and answers 2xx, with the handler's envelope, only when the
\* handler returned Ok.
C23_RegistryErrorsAreHardResponses ==
    \A t \in Tasks :
        (task[t].kind = "mcp" /\ task[t].pc = "done"
                /\ task[t].msg.magic = "MCP0") =>
            /\ task[t].resp.tag = "Err" =>
                  /\ ~Is2xx(task[t].http.status)
                  /\ DOMAIN task[t].http.body = {"error"}
                  /\ task[t].http.body.error = Display(task[t].resp.val)
            /\ Is2xx(task[t].http.status) =>
                  /\ task[t].out.tag = "Ok"
                  /\ task[t].calls = 1
                  /\ task[t].http.body = task[t].out.val

\* handle_mcp has answered 400 with the text of AgentNotRegistered("b") and,
\* to another request, 400 with the text of a handler's error.
C23_Witness ==
    \E t, u \in Tasks :
        /\ task[t].kind = "mcp" /\ task[t].pc = "done"
        /\ task[t].msg.magic = "MCP0"
        /\ task[t].resp = Err(AgentNotRegistered(<<"b">>))
        /\ task[t].http.status = 400
        /\ task[t].http.body.error
               = <<"Agente '", "b", "' nao foi encontrado no registro">>
        /\ task[u].kind = "mcp" /\ task[u].pc = "done"
        /\ task[u].out = Err(InternalAgentError("backend"))
        /\ task[u].http = IntoResponse(InternalAgentError("backend"))

\* C24: handle_stream_mcp checks the magic before it spawns its background
\* task: a streaming request whose magic is not "MCP0" has no task spawned
\* for it and never reaches the registry.
C24_MagicCheckedBeforeSpawn ==
    \A t \in Tasks :
        (task[t].pc # "idle" /\ task[t].kind = "stream"
                /\ task[t].msg.magic # "MCP0") =>
            /\ ~task[t].spawned
            /\ ~task[t].consulted

(***************************************************************************)
(* Claims about the decoder's output channel.                              *)
(***************************************************************************)
\* The task is at one of its tx.send(..).await.
Sending == dpc \in {"sendTok", "sendErr", "sendNetErr", "sendFinish"}

\* The task's send returns in this step.
SendStep ==
    /\ Sending
    /\ \/ buffer' # buffer
       \/ dpc' # dpc
       \/ failedSends' # failedSends
       \/ Len(chan') > Len(chan)

\* C25: the channel never holds more than its capacity; a send with the
\* consumer alive returns only when there is room and puts its item at the
\* tail, the consumer takes the head, and nothing else touches the channel
\* or what was delivered: no item is dropped, repeated or reordered.
C25_BoundedLosslessChannel ==
    /\ [](Len(chan) <= ChanCap)
    /\ [][/\ (SendStep /\ rxAlive) =>
                /\ Len(chan) < ChanCap
                /\ chan' = Append(chan, pending)
                /\ delivered' = delivered
          /\ (~SendStep /\ (chan' # chan \/ delivered' # delivered)) =>
                /\ rxAlive
                /\ chan # <<>>
                /\ delivered' = Append(delivered, Head(chan))
                /\ chan' = Tail(chan)]_vars

\* The channel is full and the task waits in a send while the consumer is
\* alive.
C25_Witness ==
    /\ Len(chan) = ChanCap
    /\ Sending
    /\ pending # NoItem
    /\ rxAlive
    /\ ~SendReturns

(***************************************************************************)
(* Claims about authentication.                                            *)
(***************************************************************************)
\* is_valid_token(token) on handle h would return true.
ValidOn(h, token) == cfg[h] # 0 /\ Contains(sets[cfg[h]], token)

\* C26: in the advanced server a message is passed to the registry only if
\* the request carries a bearer token that is_valid_token accepts on the
\* server's AuthConfig.
C26_AuthBeforeDispatch ==
    req.dispatched => ValidOn(srv, req.bearer)

\* C27: the token set is shared by an AuthConfig and its clones and only
\* grows: is_valid_token(t) on a handle is true exactly when add_token(t)
\* has completed on that handle or on a handle of the same family, and a
\* token that is valid on a handle stays valid on it.
C27_TokensSharedAndGrowing ==
    /\ [](\A h \in Handles : \A token \in Tokens :
             ValidOn(h, token) <=>
                 (cfg[h] # 0 /\ token \in addedTo[family[h]]))
    /\ [][/\ check' # check =>
                check'.res = (check'.token \in addedTo[family[check'.h]])
          /\ \A h \in Handles : \A token \in Tokens :
                ValidOn(h, token) => (cfg'[h] = cfg[h] /\ ValidOn(h, token)')
         ]_vars

\* is_valid_token returned true on a clone, for a token that an AuthConfig
\* of another family does not hold, while another token is not valid on
\* the clone.
C27_Witness ==
    /\ check.h # 0
    /\ check.res
    /\ family[check.h] # check.h
    /\ \E g \in Handles :
          /\ cfg[g] # 0
          /\ family[g] # family[check.h]
          /\ ~ValidOn(g, check.token)
    /\ \E token \in Tokens : ~ValidOn(check.h, token)

(***************************************************************************)
(* Claims about the agents that call a backend.                            *)
(***************************************************************************)
\* C28: OpenAIAgent and DeepSeekAgent validate the payload before any
\* outbound call: with user_prompt absent or not a string the call returns
\* InternalAgentError("Missing user_prompt") with no backend request made;
\* no call makes more than one backend request; a backend status outside
\* 2xx gives an InternalAgentError and never an envelope.
C28_ValidateBeforeBackendCall ==
    /\ call.posts <= 1
    /\ (call.pc \notin {"idle", "validate"} /\ call.prompt \in {"absent", "number"}) =>
          /\ call.pc = "done"
          /\ call.posts = 0
          /\ call.res = Err(InternalAgentError("Missing user_prompt"))
    /\ (call.pc = "done" /\ call.status # 0 /\ ~IsSuccess(call.status)) =>
          /\ call.res.tag = "Err"
          /\ call.res.val.variant = "InternalAgentError"
    /\ (call.pc = "done" /\ call.res.tag = "Ok") =>
          /\ call.posts = 1
          /\ IsSuccess(call.status)

\* DeepSeekAgent has returned the error for a user_prompt that is a number,
\* without a backend request.
C28_Witness ==
    /\ call.pc = "done"
    /\ call.agent = "deepseek"
    /\ call.prompt = "number"
    /\ call.posts = 0
    /\ call.res = Err(InternalAgentError("Missing user_prompt"))

(***************************************************************************)
(* Claims about the envelopes a client builds.                             *)
(***************************************************************************)
\* C29: for an agent name without ':' and any action, ':' in it or not,
\* create_mcp_message_for_agent builds an envelope with magic "MCP0",
\* version 1 and the payload as given, and dispatch takes as routing key
\* exactly the agent, the part of the command before its first ':': the
\* envelope is handed to the agent's capability.
C29_BuiltEnvelopeRoutesToAgent ==
    (built.pc = "routed") =>
        /\ built.msg.magic = "MCP0"
        /\ built.msg.version = 1
        /\ built.msg.payload = built.payload
        /\ built.msg.command = built.agent \o <<":">> \o built.action
        /\ Len(SplitN2(built.msg.command)) = 2
        /\ SplitN2(built.msg.command)[1] = built.agent
        /\ SplitN2(built.msg.command)[2] = built.action
        /\ built.route.kind = "invoke"
        /\ built.route.inst = 1

\* An envelope for agent "ab" whose action is ":x:" has been routed to the
\* agent's capability.
C29_Witness ==
    /\ built.pc = "routed"
    /\ built.agent = <<"a", "b">>
    /\ built.action = <<":", "x", ":">>
    /\ built.route.kind = "invoke"

(***************************************************************************)
(* Claims about the sweep's critical section and about removal.            *)
(***************************************************************************)
\* Thread w's sweep has read the time and has not yet removed its ids.
SweepSampled(w) == thr[w].pc \in {"s_lock", "s_rm"}

\* C31: the sweep reads the time, selects and removes inside one critical
\* section: from the moment the time is read the sweep holds the write
\* guard, so until it has removed its ids the map is not changed by anyone
\* else and the time it compares with is the current one.
C31_SweepSamplesUnderLock ==
    /\ [](\A w \in Threads : SweepSampled(w) => storeWriter = w)
    /\ [][\A w \in Threads :
             (SweepSampled(w) /\ ~SweepReturns(w)) =>
                 (store' = store /\ clock' = clock)]_vars


\* C32: only the sweep removes entries.  A key leaves the map only in the
\* step in which a sweep returns, and only when the updated_at stored under
\* it is more than max_age before the time that sweep read; no step of a
\* create, get, update or append takes a key out, and a get of a key of the
\* map returns the conversation stored under it.
C32_OnlySweepRemoves ==
    [][/\ \A id \in DOMAIN store :
              id \notin DOMAIN store' =>
                  \E w \in Threads :
                      /\ SweepReturns(w)
                      /\ thr[w].now - store[id].updated_at > max_age
       /\ \A w \in Threads :
              (GetReturns(w) /\ thr'[w].id \in DOMAIN store) =>
                  thr'[w].res = Ok(store[thr'[w].id])]_vars

\* A sweep returned 0 at the horizon while the map holds a conversation that
\* was created, appended to and written back.
C32_Witness ==
    /\ clock = ExpiryHorizon
    /\ updates > 0
    /\ \E id \in DOMAIN store : Len(store[id].messages) > 0
    /\ \E w \in Threads :
           /\ thr[w].pc = "idle"
           /\ thr[w].op = "sweep"
           /\ thr[w].res = [tag |-> "Count", val |-> 0]


\* C37: update_conversation is an unconditional upsert: whether or not the
\* id of its argument is a key of the map (never inserted, or removed by a
\* sweep), the call returns Ok and afterwards the map holds the argument
\* under its id, with the updated_at the argument carried, and every other
\* entry as before.
C37_UpdateIsUpsert ==
    [][\A w \in Threads :
           UpdateReturns(w) =>
               /\ thr'[w].res = Ok(0)
               /\ DOMAIN store' = DOMAIN store \cup {thr[w].id}
               /\ store'[thr[w].id] = thr[w].entry
               /\ \A id \in DOMAIN store \ {thr[w].id} :
                      store'[id] = store[id]]_vars

\* The conversation a sweep removed is in the map again, written back by an
\* update that returned Ok, with an updated_at older than max_age; and a
\* conversation built by a caller was inserted by an update.
C37_Witness ==
    /\ 1 \in removed
    /\ 1 \in DOMAIN store
    /\ clock - store[1].updated_at > max_age
    /\ \E id \in ForeignIds : id \in DOMAIN store
    /\ \E w \in Threads :
           /\ thr[w].pc = "idle" /\ thr[w].op = "update"
           /\ thr[w].id = 1 /\ thr[w].res = Ok(0)


(***************************************************************************)
(* Claims about the end of a token stream.                                 *)
(***************************************************************************)
\* The task has ended and the consumer has read everything: the last item
\* it got is the finish token, and the TokenStream yields None from now on.
StreamEnded ==
    /\ dpc = "done"
    /\ chan = <<>>
    /\ delivered # <<>>
    /\ delivered[Len(delivered)] = Ok(FinishToken)

\* C33: with a finite source and a consumer that keeps receiving, a started
\* decoder eventually sends the finish token and ends, and the consumer
\* reaches the end of the stream; a task that ended never runs again, on
\* the same input or another, and nothing is delivered after the end.
C33_DecoderTerminates ==
    /\ (dpc # "new") ~> StreamEnded
    /\ [][dpc = "done" => (dpc' = "done" /\ input' = input)]_vars
    /\ [][StreamEnded => delivered' = delivered]_vars

\* The stream ended after three items or more, a transport error among
\* them.
C33_Witness ==
    /\ StreamEnded
    /\ netErr
    /\ Len(delivered) >= 3


\* C38: the bytes left in the buffer without a line feed when the source
\* ends or fails are dropped: when the task is done the items it sent are
\* those of the complete lines of the bytes that arrived, then the error
\* item of a transport failure if there was one, then the finish token;
\* what the buffer still holds has no line feed and gave no item.
C38_TrailingBytesDiscarded ==
    (dpc = "done" /\ failedSends = 0) =>
        LET due == Kinds(LineItems(Utf8Lossy(Consumed)))
            failure == IF netErr THEN <<"error">> ELSE <<>>
        IN  /\ Kinds(Accepted) = due \o failure \o <<"finish">>
            /\ Find(buffer, Newline) = 0
            /\ ~netErr => buffer = Utf8Lossy(SubSeq(input,
                              Len(input) - Len(buffer) + 1, Len(input)))

\* The source ended after a complete line and two bytes more: the consumer
\* got the token of the line and the finish token, the two bytes are still
\* in the buffer.
C38_Witness ==
    /\ CleanRun
    /\ input = InUnterminated
    /\ buffer = <<Quote, "B">>
    /\ delivered = <<Ok(StreamingToken(<<Quote, "A", Quote>>, FALSE)),
                     Ok(FinishToken)>>


(***************************************************************************)
(* Claims about the channel of the streaming handler.                      *)
(***************************************************************************)
\* The sends the streaming task of request t has made: the events queued
\* and the send that failed.
SendsMade(tk) == Len(tk.events) + (IF tk.sendFailed THEN 1 ELSE 0)

\* C35: the task of a streaming request makes at most one send into its
\* channel of 100, so a send never waits for room: whenever the task is at
\* its send the send can return, and it is the first one.  The step after
\* the registry call returned is the send, and the task ends with it; with
\* the client gone the send fails and queues nothing.
C35_SingleSendNeverBlocks ==
    /\ [](\A t \in Tasks :
             /\ SendsMade(task[t]) <= 1
             /\ Len(task[t].events) < SseChanCap
             /\ task[t].pc = "send" =>
                   SseSendReturns(task[t]) /\ SendsMade(task[t]) = 0)
    /\ [][\A t \in Tasks :
             (task[t].pc = "send" /\ task'[t].pc # "send") =>
                 /\ task'[t].pc = "done"
                 /\ SendsMade(task'[t]) = 1
                 /\ task'[t].sendFailed = task[t].gone
                 /\ task[t].gone => task'[t].events = <<>>]_vars

\* One streaming task ended with its send failed after the client went away
\* during the handler call, the other has queued its event.
C35_Witness ==
    \E t, u \in Tasks :
        /\ task[t].pc = "done" /\ task[t].gone /\ task[t].sendFailed
        /\ task[t].calls = 1
        /\ task[t].events = <<>>
        /\ task[u].pc = "done" /\ ~task[u].gone
        /\ task[u].calls = 1
        /\ task[u].events = <<SseEvent(task[u].resp)>>


(***************************************************************************)
(* Claims about a registration made while a dispatch is in flight.         *)
(***************************************************************************)
\* Task t is a dispatch whose handler call is in flight.
InFlight(t) == task[t].kind # "register" /\ task[t].pc = "handler"

\* C36: a dispatch resolves its handler once, at the lookup.  While its
\* handler call is in flight the capability it runs is the one the lookup
\* found under the command's key and is still alive, whatever registrations
\* are called meanwhile; the call is made once and the dispatch ends with
\* the result of that capability.
C36_HandlerResolvedOnce ==
    /\ [](\A t \in Tasks : InFlight(t) =>
             /\ task[t].calls = 0
             /\ \E n \in DOMAIN task[t].regBefore :
                    /\ IsKeyOf(n, task[t].msg.command)
                    /\ task[t].inst = task[t].regBefore[n].id
                    /\ n \in DOMAIN agents /\ agents[n].id = task[t].inst)
    /\ [][\A t \in Tasks : InFlight(t) =>
             /\ task'[t].inst = task[t].inst
             /\ task'[t].pc # "handler" =>
                   /\ task'[t].pc = "done" /\ task'[t].calls = 1
                   /\ task'[t].resp = task'[t].out
                   /\ \E n \in DOMAIN task[t].regBefore :
                          /\ task[t].regBefore[n].id = task[t].inst
                          /\ task'[t].out \in
                                 HandlerOutcomes(n, task[t].msg)]_vars

\* A registration under the name was called while the dispatch ran the
\* handler of that name; the dispatch has ended with the answer of the
\* capability it had found, which the registration has replaced since.
C36_Witness ==
    \E t, u \in Tasks :
        /\ task[t].kind = "mcp" /\ task[t].pc = "done" /\ task[t].calls = 1
        /\ task[t].resp.tag = "Ok"
        /\ task[u].kind = "register" /\ task[u].pc = "done"
        /\ task[u].inst = task[t].inst
        /\ \E r \in replaced : r.id = task[t].inst


(***************************************************************************)
(* Claims about the version field and about names with a separator.        *)
(***************************************************************************)
\* The responses handle_mcp can give to envelope m with the registry reg.
ResponsesTo(reg, m) ==
    IF m.magic # "MCP0" THEN {McpResponse(Ok(MagicErrorEnvelope))}
    ELSE LET r == Route(reg, m) IN
         IF r.kind = "fail" THEN {McpResponse(Err(r.err))}
         ELSE {McpResponse(out) :
                  out \in UNION {HandlerOutcomes(n, m) :
                                    n \in {k \in DOMAIN reg : reg[k].id = r.inst}}}

\* C39: the version of an envelope is never looked at: the response to an
\* envelope is one of the responses to the same envelope with version 1,
\* and every envelope sent back, by a capability or for a bad magic, has
\* magic "MCP0" and version 1.
C39_VersionIgnored ==
    \A t \in Tasks :
        (task[t].kind = "mcp" /\ task[t].pc = "done") =>
            /\ task[t].http \in
                   ResponsesTo(task[t].regBefore,
                               [task[t].msg EXCEPT !.version = 1])
            /\ task[t].http.status = 200 =>
                   /\ task[t].http.body.magic = "MCP0"
                   /\ task[t].http.body.version = 1

\* An envelope of version 2 was answered by the capability, one of version
\* 255 with a bad magic got the error envelope; both answers have
\* version 1.
C39_Witness ==
    \E t, u \in Tasks :
        /\ task[t].pc = "done" /\ task[t].msg.version = 2
        /\ task[t].calls = 1 /\ task[t].http.status = 200
        /\ task[t].http.body.version = 1
        /\ task[u].pc = "done" /\ task[u].msg.version = 255
        /\ task[u].msg.magic # "MCP0"
        /\ task[u].http.body = MagicErrorEnvelope


\* C40: a capability whose name contains ':' is never dispatched to: the
\* routing key of every command is what precedes its first ':' and holds
\* no ':', so the capability a dispatch has looked up, runs or has run is
\* stored under a name without ':', whatever is registered.
C40_ColonNameUnreachable ==
    /\ \A c \in Commands :
           Len(SplitN2(c)) = 2 =>
               /\ ~HasColon(SplitN2(c)[1])
               /\ IsKeyOf(SplitN2(c)[1], c)
    /\ \A t \in Tasks :
           task[t].inst # 0 =>
               \E n \in DOMAIN task[t].regBefore :
                   /\ task[t].regBefore[n].id = task[t].inst
                   /\ ~HasColon(n)
                   /\ ~HasColon(task[t].regBefore[n].name)

\* The capability named "a:x" is registered and "a" is not; the command
\* "a:x:y" was refused for the key "a".
C40_Witness ==
    /\ DOMAIN agents = {<<"a", ":", "x">>}
    /\ \E t \in Tasks :
           /\ task[t].pc = "done"
           /\ task[t].msg.command = <<"a", ":", "x", ":", "y">>
           /\ task[t].resp = Err(AgentNotRegistered(<<"a">>))


(***************************************************************************)
(* Claims about the two locks together.                                    *)
(***************************************************************************)
\* Some request, registration or store call has begun and not ended.
SomethingPending ==
    \/ \E t \in Tasks : task[t].pc # "idle"
    \/ \E w \in Threads : thr[w].pc # "idle"

\* C34: the two locks are never nested.  The registry's guard is held only
\* by a dispatch between its lookup and its end, positions where no store
\* call is made; the store's guard is held only inside one store call,
\* taken once when the lock is free and dropped before the call returns;
\* and whatever requests, registrations and store calls are under way, one
\* of them can take its next step: there is no deadlock.
C34_NoNestedLocksNoDeadlock ==
    /\ [](/\ \A t \in regReaders :
                task[t].kind \in {"mcp", "stream"}
                /\ task[t].pc \in {"process", "handler", "send"}
          /\ \A t \in Tasks :
                task[t].pc \in {"idle", "magic", "lock", "regwait", "done"} =>
                    t \notin regReaders
          /\ \A w \in Threads :
                (storeWriter = w) <=> thr[w].pc \in {"a_find", "a_push", "s_rm"}
          /\ SomethingPending => ENABLED (RegistryStep \/ StoreStep))
    /\ [][\A w \in Threads :
             (storeWriter' = w /\ storeWriter # w) =>
                 /\ storeWriter = "none"
                 /\ thr[w].pc \in {"a_lock", "s_lock"}]_vars

\* A streaming dispatch holds the registry's read guard at its send while
\* a registration waits for the write guard, one store call holds the
\* store's guard and another waits for it.
C34_Witness ==
    /\ \E t, u \in Tasks :
           /\ task[t].pc = "send" /\ t \in regReaders
           /\ task[u].pc = "regwait"
    /\ \E w, v \in Threads :
           /\ storeWriter = w
           /\ thr[v].pc \in {"a_lock", "s_lock", "c_ins", "u_ins"}

====
